---------------------------- MODULE Spec2Model ----------------------------
(***************************************************************************)
(* State-machine model of the DeviceInteractor hierarchy of                *)
(* lib/devices.ts (testbot SDK): per-variant power-on sequences, the       *)
(* direct, two-phase and compute-module flashing protocols, and the        *)
(* completion waits (debounced polling, current-draw polling, USB          *)
(* re-enumeration with bounded retries).                                   *)
(*                                                                         *)
(* One DeviceInteractor instance is constructed (Init) and a caller        *)
(* invokes its public operations one after the other.  Every `await` of    *)
(* the source is one step of the model: a command handed to the            *)
(* HardwareDriver or to the shell either completes or rejects, and a       *)
(* rejection propagates to the caller (no operation of devices.ts has a    *)
(* try/catch; only the `.catch` handlers written in the source absorb).    *)
(***************************************************************************)
EXTENDS Integers, Sequences, FiniteSets, TLC

(***************************************************************************)
(* Program constants                                                       *)
(***************************************************************************)
POLL_TRIES == 20
HIGH == 1
LOW == 0
DUT_PW_EN == 14
OE_TXB == 13
OE_TXS == 15
USB_PORT == 4
MAX_TRIES == 3
BLOCK_TIMEOUT_MS == 300000
NUC_TIMEOUT_MS == 360000
NUC_POLL_MS == 5000
NUC_THRESHOLD_MA == 100
TX2_RETRIES == 10

(***************************************************************************)
(* Device variant catalog                                                  *)
(***************************************************************************)
SdBootVariants ==
  {"RaspberryPi", "RtRpi300", "RPI3Neuron", "RPI4Neuron", "JetsonNano",
   "CM4IOBoard", "RockPro64"}

PlainFlasherVariants ==
  {"BeagleBone", "Imx8mmebcrs08a2", "Rockpi4bRk3399", "CoralDevBoard",
   "Imx8mmVarDartNRT"}

FlasherVariants == PlainFlasherVariants \cup {"JetsonTX2"}

ComputeModuleVariants ==
  {"BalenaFin", "BalenaFinV09", "RevPiCore3", "RevPiConnect", "Rpi243390"}

Variants ==
  SdBootVariants \cup FlasherVariants \cup ComputeModuleVariants \cup {"IntelNuc"}

\* the second argument of super(testBot, <volts>) in each constructor
MutEveryVariantFiveVolts(v) == 5
ConstructorVoltage(v) ==
  CASE v = "RaspberryPi"      -> 5
    [] v = "RtRpi300"         -> 12
    [] v = "RPI3Neuron"       -> 24
    [] v = "RPI4Neuron"       -> 24
    [] v = "JetsonNano"       -> 5
    [] v = "CM4IOBoard"       -> 12
    [] v = "RockPro64"        -> 12
    [] v = "BeagleBone"       -> 5
    [] v = "Imx8mmebcrs08a2"  -> 12
    [] v = "Rockpi4bRk3399"   -> 12
    [] v = "CoralDevBoard"    -> 5
    [] v = "Imx8mmVarDartNRT" -> 5
    [] v = "JetsonTX2"        -> 5
    [] v = "BalenaFin"        -> 12
    [] v = "BalenaFinV09"     -> 12
    [] v = "RevPiCore3"       -> 12
    [] v = "RevPiConnect"     -> 12
    [] v = "Rpi243390"        -> 5
    [] v = "IntelNuc"         -> 12

(***************************************************************************)
(* Commands.  A command is one awaited call; `k` says who executes it:     *)
(*   "driver"  a HardwareDriver (testBot) call, may reject                 *)
(*   "shell"   an exec() whose rejection is absorbed by a .catch           *)
(*   "exec"    an exec() without .catch, may reject                        *)
(*   "timer"   Bluebird.delay, always completes                            *)
(*   "scanner" a call on the etcher-sdk Scanner                            *)
(*   "local"   an assignment to a field of the interactor                  *)
(***************************************************************************)
Cmd(k, c, a, b) == [k |-> k, c |-> c, a |-> a, b |-> b]

SetVout(v)        == Cmd("driver", "setVout", v, 0)
PowerOnDUT        == Cmd("driver", "powerOnDUT", 0, 0)
PowerOffDUT       == Cmd("driver", "powerOffDUT", 0, 0)
SwitchSdToDUT(ms) == Cmd("driver", "switchSdToDUT", ms, 0)
SwitchSdToHost(ms) == Cmd("driver", "switchSdToHost", ms, 0)
DriverFlash       == Cmd("driver", "flash", 0, 0)
FlashToDisk       == Cmd("driver", "flashToDisk", 0, 0)
CloseDutSerial    == Cmd("driver", "closeDutSerial", 0, 0)
DigitalWrite(pin, level) == Cmd("driver", "digitalWrite", pin, level)
Delay(ms)         == Cmd("timer", "delay", ms, 0)
ToggleUsb(state, port) == Cmd("shell", "toggleUsb", state, port)
GpioSetup(n)      == Cmd("shell", "gpioSetup", n, 0)
Gpio26(level)     == Cmd("exec", "gpio26", level, 0)
ReadGpio13        == Cmd("exec", "readGpio13", 0, 0)
MarkGpiosEnabled  == Cmd("local", "gpiosEnabled", 1, 0)
ScannerStart      == Cmd("scanner", "start", 0, 0)
ScannerStop       == Cmd("scanner", "stop", 0, 0)

\* the HardwareDriver operations that write media or drive power, mux, voltage
DriverOps ==
  {"setVout", "powerOnDUT", "powerOffDUT", "switchSdToDUT", "switchSdToHost",
   "flash", "flashToDisk", "closeDutSerial", "digitalWrite"}

IsDriverCommand(c) == c.k = "driver"
DriverCommands(seq) == SelectSeq(seq, IsDriverCommand)

(***************************************************************************)
(* File paths are strings; the model keeps them as sequences of characters *)
(* so that String.prototype.endsWith is computed, not assumed.             *)
(***************************************************************************)
ZipPath    == <<"a", ".", "z", "i", "p">>
GzPath     == <<"a", ".", "g", "z">>
RawPath    == <<"a", ".", "i", "m", "g">>
ZipGzPath  == <<"a", ".", "z", "i", "p", ".", "g", "z">>
Paths == {ZipPath, GzPath, RawPath, ZipGzPath}

EndsWith(s, suffix) ==
  /\ Len(s) >= Len(suffix)
  /\ SubSeq(s, Len(s) - Len(suffix) + 1, Len(s)) = suffix

DotZip == <<".", "z", "i", "p">>
DotGz == <<".", "g", "z">>

\* the gzip layers around the image in the file at a path: an image stored
\* as <name>.gz is the image compressed once
GzipLayers(p) == IF EndsWith(p, DotGz) THEN 1 ELSE 0


(***************************************************************************)
(* Straight-line command sequences of the methods                          *)
(***************************************************************************)
\* DeviceInteractor.flashFromFile: the guard that throws
DeviceInteractor_flashFromFile_throws(filePath) == EndsWith(filePath, DotZip)

\* DeviceInteractor.flashFromFile: what it hands to this.flash(), and the
\* zlib.createGunzip() stages it has put between the file and flash()
DeviceInteractor_flashFromFile_source(p) == [path |-> p, gunzips |-> 0]

\* DeviceInteractor.flash
DeviceInteractor_flash == <<DriverFlash>>

\* DeviceInteractor.powerOff
MutPowerOffBeforeClose == <<PowerOffDUT, CloseDutSerial>>
DeviceInteractor_powerOff == <<CloseDutSerial, PowerOffDUT>>

\* RaspberryPi, RtRpi300, RPI3Neuron, RPI4Neuron, CM4IOBoard, RockPro64 .powerOn
MutPowerOnFiveVolts(pv) == <<SetVout(5), SwitchSdToDUT(1000), PowerOnDUT>>
MutPowerOnBeforeMux(pv) == <<SetVout(pv), PowerOnDUT, SwitchSdToDUT(1000)>>
RaspberryPi_powerOn(pv) == <<SetVout(pv), SwitchSdToDUT(1000), PowerOnDUT>>

\* JetsonNano.powerOn
JetsonNano_powerOn(pv) ==
  <<SetVout(pv), SwitchSdToDUT(1000), Delay(5000), PowerOnDUT>>

\* FlasherDeviceInteractor.powerOn
MutPowerOnMuxesToDut(pv) == <<SetVout(pv), SwitchSdToDUT(1000), PowerOnDUT>>
FlasherDeviceInteractor_powerOn(pv) ==
  <<SetVout(pv), SwitchSdToHost(1000), PowerOnDUT>>

\* FlasherDeviceInteractor.flash: the write before, the mux after the wait
MutMuxToHostBeforeWait == <<DriverFlash, SwitchSdToHost(1000)>>
FlasherDeviceInteractor_flash_write == <<DriverFlash>>
FlasherDeviceInteractor_flash_detach == <<SwitchSdToHost(1000)>>

\* FlasherDeviceInteractor.waitInternalFlash: phase (a) and the else branch
MutBootPowerBeforeVoltage(pv) ==
  <<PowerOffDUT, SwitchSdToDUT(1000), PowerOnDUT, Delay(5000), SetVout(pv)>>
FlasherDeviceInteractor_waitInternalFlash_boot(pv) ==
  <<PowerOffDUT, SwitchSdToDUT(1000), SetVout(pv), Delay(5000), PowerOnDUT>>
MutOffWithoutPowerOff == <<SwitchSdToHost(1000)>>
FlasherDeviceInteractor_waitInternalFlash_off ==
  <<PowerOffDUT, SwitchSdToHost(1000)>>

\* JetsonTX2.enableGPIOs
JetsonTX2_enableGPIOs(gpiosEnabled) ==
  IF gpiosEnabled THEN <<>>
  ELSE <<DigitalWrite(OE_TXB, HIGH), DigitalWrite(OE_TXS, HIGH), Delay(100),
         GpioSetup(1), GpioSetup(2), GpioSetup(3), GpioSetup(4), Delay(100),
         MarkGpiosEnabled>>

\* JetsonTX2.powerOnRelay / powerOffRelay
MutRelayTwelveVolts(pv) == <<SetVout(12), DigitalWrite(DUT_PW_EN, HIGH)>>
JetsonTX2_powerOnRelay(pv) == <<SetVout(pv), DigitalWrite(DUT_PW_EN, HIGH)>>
MutRelayOffByDriver == <<PowerOffDUT>>
JetsonTX2_powerOffRelay == <<DigitalWrite(DUT_PW_EN, LOW)>>

\* JetsonTX2.powerOnDUT: a 3 s low pulse on gpio26; the b field of the
\* releasing write carries the length of the pulse it ends
JetsonTX2_powerOnDUT(pv, gpiosEnabled) ==
  JetsonTX2_enableGPIOs(gpiosEnabled) \o JetsonTX2_powerOnRelay(pv) \o
  <<Delay(1000), Gpio26(LOW), Delay(3000),
    Cmd("exec", "gpio26", HIGH, 3000), Delay(3000)>>

\* JetsonTX2.powerOffDUT: a 10 s low pulse, a power read that is only
\* logged, then the relay is released
JetsonTX2_powerOffDUT(pv, gpiosEnabled) ==
  JetsonTX2_enableGPIOs(gpiosEnabled) \o JetsonTX2_powerOnRelay(pv) \o
  <<Delay(1000), Gpio26(LOW), Delay(10000),
    Cmd("exec", "gpio26", HIGH, 10000), Delay(1000), ReadGpio13>> \o
  JetsonTX2_powerOffRelay

\* JetsonTX2.powerOn
JetsonTX2_powerOn(pv, gpiosEnabled) ==
  <<SwitchSdToHost(1000)>> \o JetsonTX2_powerOnDUT(pv, gpiosEnabled)

\* JetsonTX2.waitInternalFlash: mux and boot after the power-off retries
JetsonTX2_waitInternalFlash_boot(pv, gpiosEnabled) ==
  <<SwitchSdToDUT(1000)>> \o JetsonTX2_powerOnDUT(pv, gpiosEnabled)

\* BalenaFin.powerOnFlash and its overrides
MutPowerOnFlashPowersDut ==
  <<ToggleUsb(0, USB_PORT), Delay(2000), ToggleUsb(1, USB_PORT),
    SetVout(12), PowerOnDUT>>
BalenaFin_powerOnFlash ==
  <<ToggleUsb(0, USB_PORT), Delay(2000), ToggleUsb(1, USB_PORT)>>
BalenaFinV09_powerOnFlash(pv) ==
  <<ToggleUsb(0, USB_PORT), Delay(1000), ToggleUsb(1, USB_PORT),
    SetVout(pv), PowerOnDUT>>
Rpi243390_powerOnFlash(pv) ==
  <<ToggleUsb(0, USB_PORT), Delay(1000), ToggleUsb(1, USB_PORT), Delay(5000),
    SetVout(pv), PowerOnDUT>>

powerOnFlash(v, pv) ==
  CASE v = "BalenaFin" -> BalenaFin_powerOnFlash
    [] v = "Rpi243390" -> Rpi243390_powerOnFlash(pv)
    [] OTHER           -> BalenaFinV09_powerOnFlash(pv)

\* BalenaFin.flash / Rpi243390.flash: the head of one attempt, up to the
\* start of the scanner
MutAttemptWithoutPowerOff(v, pv) ==
  <<ToggleUsb(0, USB_PORT), Delay(1000)>> \o powerOnFlash(v, pv) \o
  <<ScannerStart>>
MutAttemptStartsTwoScanners(v, pv) ==
  <<ToggleUsb(0, USB_PORT), PowerOffDUT,
    Delay(IF v = "Rpi243390" THEN 1000 ELSE 8000)>> \o
  powerOnFlash(v, pv) \o <<ScannerStart, ScannerStart>>
BalenaFin_flash_attempt(v, pv) ==
  <<ToggleUsb(0, USB_PORT), PowerOffDUT,
    Delay(IF v = "Rpi243390" THEN 1000 ELSE 8000)>> \o
  powerOnFlash(v, pv) \o <<ScannerStart>>

\* ... after a matched block device (and deviceScanner.stop()): settle, write
MutSettleWithoutWrite(v) == <<Delay(1000)>>
BalenaFin_flash_write(v) ==
  <<Delay(IF v = "Rpi243390" THEN 5000 ELSE 1000), FlashToDisk>>

\* ... after the retry loop
MutCleanupPowerOffFirst == <<PowerOffDUT, ToggleUsb(0, USB_PORT)>>
BalenaFin_flash_cleanup == <<ToggleUsb(0, USB_PORT), PowerOffDUT>>

\* BalenaFin.powerOn / Rpi243390.powerOn
BalenaFin_powerOn(v, pv) ==
  <<ToggleUsb(0, USB_PORT), Delay(IF v = "Rpi243390" THEN 8000 ELSE 1000),
    SetVout(pv), PowerOnDUT>>

\* IntelNuc.powerOn: before the first current read, and the else branch
MutBootClosesSerial(pv) ==
  <<CloseDutSerial, PowerOffDUT, SetVout(pv), SwitchSdToDUT(5000), PowerOnDUT,
    Delay(5000)>>
MutBootWithoutMux(pv) == <<PowerOffDUT, SetVout(pv), PowerOnDUT, Delay(5000)>>
IntelNuc_powerOn_boot(pv) ==
  <<PowerOffDUT, SetVout(pv), SwitchSdToDUT(5000), PowerOnDUT, Delay(5000)>>
MutCompleteWithoutMux == <<PowerOffDUT, PowerOnDUT>>
IntelNuc_powerOn_complete ==
  <<PowerOffDUT, SwitchSdToHost(1000), PowerOnDUT>>

\* powerOn() of every variant but IntelNuc, whose powerOn has a loop
powerOn(v, pv, gpiosEnabled) ==
  CASE v = "JetsonNano"               -> JetsonNano_powerOn(pv)
    [] v \in SdBootVariants \ {"JetsonNano"} -> RaspberryPi_powerOn(pv)
    [] v \in PlainFlasherVariants     -> FlasherDeviceInteractor_powerOn(pv)
    [] v = "JetsonTX2"                -> JetsonTX2_powerOn(pv, gpiosEnabled)
    [] v \in ComputeModuleVariants    -> BalenaFin_powerOn(v, pv)
    [] v = "IntelNuc"                 -> IntelNuc_powerOn_boot(pv)

(***************************************************************************)
(* Probes                                                                  *)
(***************************************************************************)
\* stdout of `cat <sysfs file>`
ProbeOutputs == {<<"1", "\n">>, <<"0", "\n">>, <<>>}

\* file.includes('1')
FileIncludesOne(file) == \E i \in 1..Len(file) : file[i] = "1"

\* FlasherDeviceInteractor.checkDutPower, JetsonTX2.checkDutPower (after
\* enableGPIOs), JetsonTX2.checkDutBooted: the value returned for a stdout
FlasherDeviceInteractor_checkDutPower(stdout) == FileIncludesOne(stdout)

\* readVoutAmperage, in milliamperes
CurrentsMilli == {0, 20, 30, 31, 50, 100, 101, 150, 300, 500, 49999, 50000, 80000}

\* Imx8mmVarDartNRT.checkDutPower
Imx8mmVarDartNRT_checkDutPower(outCurrent) ==
  outCurrent > 30 /\ outCurrent < 50000

\* the values checkDutPower can return for a variant
checkDutPower(v) ==
  IF v = "Imx8mmVarDartNRT"
  THEN {Imx8mmVarDartNRT_checkDutPower(c) : c \in CurrentsMilli}
  ELSE {FlasherDeviceInteractor_checkDutPower(o) : o \in ProbeOutputs}

\* the currents for which Imx8mmVarDartNRT.checkDutPower returns r (for the
\* other variants no current is read)
CurrentsRead(v, r) ==
  IF v = "Imx8mmVarDartNRT"
  THEN {c \in CurrentsMilli : Imx8mmVarDartNRT_checkDutPower(c) = r}
  ELSE {0}

\* how a rejected probe surfaces: a driver read for the current probe, an
\* exec() for the sysfs probes
ProbeError(v) ==
  IF v = "Imx8mmVarDartNRT" THEN "driverError" ELSE "probeShellError"


(***************************************************************************)
(* State                                                                   *)
(***************************************************************************)
VARIABLES
  variant,       \* the class of the constructed DeviceInteractor
  powerVoltage,  \* its powerVoltage field
  hw,            \* what the rig was last told: vout, dutPower, mux, serial
                 \* capture, and the interactor's gpiosEnabled field
  op,            \* the public operation in progress ("none" before any)
  filePath,      \* its filePath argument (<<>> when it has none)
  pc,            \* position inside the operation
  todo,          \* awaited calls still to issue before the next branch point
  log,           \* the calls issued by the operation in progress, in order
  outcome,       \* "running", "ok", or the error the operation rejected with
  dutOn,         \* waitInternalFlash: local dutOn
  tries,         \* waitInternalFlash: loop variable of the debounce window
  offCount,      \* waitInternalFlash: local offCount
  winOn,         \* history: on-samples seen in the current debounce window
  scriptPos,     \* history: how many readings of the two polls have followed
                 \* ScenarioReading so far, -1 once one did not
  stableOff,     \* history: the completion loop was left
  bootLoopRead,  \* history: the boot loop of this waitInternalFlash has taken
                 \* a checkDutPower reading
  lastOuter,     \* history: what the last outer poll of the completion loop
                 \* read ("on", "off"; "none" before the first)
  outCurrent,    \* Imx8mmVarDartNRT.checkDutPower: local outCurrent of the
                 \* last call (mA); 0 for the sysfs probes
  retries,       \* JetsonTX2.waitInternalFlash: local retries
  dutBooted,     \* JetsonTX2.waitInternalFlash: local dutBooted
  flashTries,    \* compute-module flash: local tries
  computeModule, \* compute-module flash: the attached usbboot drive
  dest,          \* compute-module flash: the matched block device, or "none"
  blockElapsed,  \* ms since the pending block-device wait began (0 when none)
  attemptsStarted, \* history: passes of the retry loop begun by this flash()
  timeouts,      \* history: block-device waits of this flash() ended by the timer
  lastEvent,     \* history: the scanner event emitted last in the attempt
                 \* in progress
  earlyAttach,   \* history: the 'Compute Module' block device attached in
                 \* the attempt in progress before its block-device wait began
  current,       \* IntelNuc.powerOn: local current (mA)
  timedOut,      \* IntelNuc.powerOn: local timedOut
  elapsed,       \* ms since IntelNuc.powerOn armed its 6-minute timer
  calls,         \* callers that do not await: the invocations made so far,
                 \* each with the driver calls it has still to issue
  drv,           \* ... the numbers of the invocations that issued the
                 \* driver calls so far, in order, consecutive calls of one
                 \* invocation counted once
  overlapped,    \* history: an invocation was made while another was pending
  twin           \* two runs of the polls of JetsonTX2.waitInternalFlash that
                 \* are fed the same checkDutPower readings

\* JetsonTX2.waitInternalFlash as its polls begin: let dutOn = false; let
\* dutBooted = false; nothing issued since; no checkDutBooted() call yet
FreshPolls ==
  [pc |-> "awaitBoot", dutOn |-> FALSE, dutBooted |-> FALSE, tries |-> 0,
   offCount |-> 0, issued |-> <<>>, askedAgain |-> FALSE]

\* no scanner event yet
NoEvent == [ev |-> "none", drive |-> [kind |-> "none", id |-> "none"]]

ctl == <<op, filePath, pc, todo, log, outcome>>
fl  == <<dutOn, tries, offCount, winOn, scriptPos, stableOff, outCurrent,
        bootLoopRead, lastOuter>>
tx  == <<retries, dutBooted>>
cm  == <<flashTries, computeModule, dest, blockElapsed, attemptsStarted,
        timeouts, lastEvent, earlyAttach>>
nuc == <<current, timedOut, elapsed>>
conc == <<calls, drv, overlapped>>
vars == <<variant, powerVoltage, hw, ctl, fl, tx, cm, nuc, conc, twin>>

Init ==
  /\ variant \in Variants
  /\ powerVoltage = ConstructorVoltage(variant)
  /\ hw = [vout |-> 0, dutPower |-> "none", mux |-> "none",
           serialOpen |-> FALSE, gpiosEnabled |-> FALSE]
  /\ op = "none" /\ filePath = <<>> /\ pc = "idle" /\ todo = <<>> /\ log = <<>>
  /\ outcome = "ok"
  /\ dutOn = FALSE /\ tries = 0 /\ offCount = 0 /\ winOn = 0 /\ scriptPos = 0
  /\ stableOff = FALSE /\ outCurrent = 0
  /\ bootLoopRead = FALSE /\ lastOuter = "none"
  /\ retries = 0 /\ dutBooted = FALSE
  /\ flashTries = 0 /\ computeModule = "none" /\ dest = "none"
  /\ lastEvent = NoEvent /\ earlyAttach = FALSE
  /\ blockElapsed = 0 /\ attemptsStarted = 0 /\ timeouts = 0
  /\ current = 0 /\ timedOut = 0 /\ elapsed = 0
  /\ calls = <<>> /\ drv = <<>> /\ overlapped = FALSE
  /\ twin = <<FreshPolls, FreshPolls>>

\* the locals of every operation, as they are when an operation starts
FreshLocals ==
  /\ dutOn' = FALSE /\ tries' = 0 /\ offCount' = 0 /\ winOn' = 0 /\ scriptPos' = 0
  /\ stableOff' = FALSE /\ outCurrent' = 0
  /\ bootLoopRead' = FALSE /\ lastOuter' = "none"
  /\ retries' = 0 /\ dutBooted' = FALSE
  /\ flashTries' = 0 /\ computeModule' = "none" /\ dest' = "none"
  /\ lastEvent' = NoEvent /\ earlyAttach' = FALSE
  /\ blockElapsed' = 0 /\ timeouts' = 0
  /\ current' = 0 /\ timedOut' = 0 /\ elapsed' = 0

Idle == pc \in {"idle", "done"}

(***************************************************************************)
(* What a completed command leaves behind                                  *)
(***************************************************************************)
Effect(h, c) ==
  CASE c.c = "setVout"        -> [h EXCEPT !.vout = c.a]
    [] c.c = "powerOnDUT"     -> [h EXCEPT !.dutPower = "on"]
    [] c.c = "powerOffDUT"    -> [h EXCEPT !.dutPower = "off"]
    [] c.c = "switchSdToDUT"  -> [h EXCEPT !.mux = "dut"]
    [] c.c = "switchSdToHost" -> [h EXCEPT !.mux = "host"]
    [] c.c = "closeDutSerial" -> [h EXCEPT !.serialOpen = FALSE]
    [] c.c = "digitalWrite" /\ c.a = DUT_PW_EN /\ c.b = LOW
                              -> [h EXCEPT !.dutPower = "off"]
    [] c.c = "gpio26" /\ c.a = HIGH /\ c.b = 3000
                              -> [h EXCEPT !.dutPower = "on"]
    [] c.c = "gpio26" /\ c.a = HIGH /\ c.b = 10000
                              -> [h EXCEPT !.dutPower = "off"]
    [] c.c = "gpiosEnabled"   -> [h EXCEPT !.gpiosEnabled = TRUE]
    [] OTHER                  -> h

\* which commands can reject, and with what
CanReject(c) == c.k \in {"driver", "exec"}
RejectionOf(c) ==
  CASE c.k = "driver"      -> "driverError"
    [] c.c = "readGpio13"  -> "probeShellError"
    [] OTHER               -> "shellError"

\* the operation rejects with error e: nothing after the throw is executed
Throw(e) ==
  /\ pc' = "done"
  /\ outcome' = e
  /\ todo' = <<>>

(***************************************************************************)
(* The next awaited call completes                                         *)
(***************************************************************************)
Exec ==
  /\ todo # <<>>
  /\ log' = Append(log, Head(todo))
  /\ hw' = Effect(hw, Head(todo))
  /\ todo' = Tail(todo)
  /\ UNCHANGED <<conc, twin, variant, powerVoltage, op, filePath, pc, outcome, fl, tx, cm, nuc>>

(***************************************************************************)
(* The next awaited call rejects                                           *)
(***************************************************************************)
ExecReject ==
  /\ todo # <<>>
  /\ CanReject(Head(todo))
  /\ log' = Append(log, Head(todo))
  /\ Throw(RejectionOf(Head(todo)))
  /\ UNCHANGED <<conc, twin, variant, powerVoltage, hw, op, filePath, fl, tx, cm, nuc>>

(***************************************************************************)
(* The operation settles: it returns to its caller, or (JetsonTX2's        *)
(* waitInternalFlash after the powerOffDUT() of its if branch) it throws   *)
(***************************************************************************)
Return ==
  /\ pc \in {"ret", "txTimedOut"} /\ todo = <<>>
  /\ pc' = "done"
  /\ outcome' = IF pc = "ret" THEN "ok" ELSE "FlashTimeoutError"
  /\ UNCHANGED <<conc, twin, variant, powerVoltage, hw, op, filePath, todo, log, fl, tx, cm, nuc>>

(***************************************************************************)
(* Calls of the public operations                                          *)
(***************************************************************************)
InFlash == op \in {"flash", "flashFromFile"}

\* where flash() of a variant starts: the calls to issue and the branch
\* point that follows them
flash(v, pv) ==
  CASE v \in FlasherVariants ->
         [todo |-> FlasherDeviceInteractor_flash_write, pc |-> "wifStart"]
    [] v \in ComputeModuleVariants ->
         [todo |-> BalenaFin_flash_attempt(v, pv), pc |-> "waitUsbboot"]
    [] OTHER ->
         [todo |-> DeviceInteractor_flash, pc |-> "ret"]

Begin(o, p) ==
  /\ Idle
  /\ op' = o
  /\ filePath' = p
  /\ log' = <<>>
  /\ FreshLocals
  /\ UNCHANGED <<conc, twin, variant, powerVoltage>>

CallFlash ==
  \E p \in Paths :
    /\ Begin("flash", p)
    /\ UNCHANGED hw
    /\ outcome' = "running"
    /\ attemptsStarted' = IF variant \in ComputeModuleVariants THEN 1 ELSE 0
    /\ todo' = flash(variant, powerVoltage).todo
    /\ pc' = flash(variant, powerVoltage).pc

CallFlashFromFile ==
  \E p \in Paths :
    /\ Begin("flashFromFile", p)
    /\ UNCHANGED hw
    /\ IF DeviceInteractor_flashFromFile_throws(p)
       THEN Throw("UnsupportedFormatError") /\ attemptsStarted' = 0
       ELSE /\ outcome' = "running"
            /\ attemptsStarted' =
                 IF variant \in ComputeModuleVariants THEN 1 ELSE 0
            /\ todo' = flash(variant, powerVoltage).todo
            /\ pc' = flash(variant, powerVoltage).pc

CallPowerOn ==
  /\ Begin("powerOn", <<>>)
  /\ UNCHANGED hw
  /\ attemptsStarted' = 0
  /\ outcome' = "running"
  /\ todo' = powerOn(variant, powerVoltage, hw.gpiosEnabled)
  /\ pc' = IF variant = "IntelNuc" THEN "nucFirstRead" ELSE "ret"

CallPowerOff ==
  /\ Begin("powerOff", <<>>)
  /\ UNCHANGED hw
  /\ attemptsStarted' = 0
  /\ outcome' = "running"
  /\ IF variant = "JetsonTX2"
     THEN todo' = JetsonTX2_enableGPIOs(hw.gpiosEnabled) /\ pc' = "txPowerOff"
     ELSE todo' = DeviceInteractor_powerOff /\ pc' = "ret"

CallWaitInternalFlash ==
  /\ variant \in FlasherVariants
  /\ Begin("waitInternalFlash", <<>>)
  /\ UNCHANGED hw
  /\ attemptsStarted' = 0
  /\ outcome' = "running"
  /\ todo' = <<>>
  /\ pc' = "wifStart"

\* the caller opens the serial capture on the driver, as the test
\* scenarios do before powerOn()
OpenDutSerial ==
  /\ Begin("openDutSerial", <<>>)
  /\ ~hw.serialOpen
  /\ hw' = [hw EXCEPT !.serialOpen = TRUE]
  /\ attemptsStarted' = 0
  /\ outcome' = "ok"
  /\ todo' = <<>>
  /\ pc' = "done"

(***************************************************************************)
(* FlasherDeviceInteractor.waitInternalFlash and the JetsonTX2 override    *)
(***************************************************************************)
\* the scenario readings on, on, off, on, then off for ever
ScenarioReading(i) == i \in {1, 2, 4}

ScriptCap == 60

ScriptNext(pos, r) ==
  IF pos >= 0 /\ pos < ScriptCap /\ r = ScenarioReading(pos + 1)
  THEN pos + 1 ELSE -1

\* waitInternalFlash is entered (from flash() or from the caller)
WifStart ==
  /\ pc = "wifStart" /\ todo = <<>>
  /\ IF variant = "JetsonTX2"
     THEN todo' = JetsonTX2_enableGPIOs(hw.gpiosEnabled) /\ pc' = "txPowerOff"
     ELSE /\ todo' = FlasherDeviceInteractor_waitInternalFlash_boot(powerVoltage)
          /\ pc' = "awaitBoot"
  /\ UNCHANGED <<conc, twin, variant, powerVoltage, hw, op, filePath, log, outcome, fl, tx,
                 cm, nuc>>

\* the condition of while (!dutOn)
MutBootLoopGivesUp(on) == FALSE
BootLoopContinues(on) == ~on

\* while (!dutOn) { dutOn = await checkDutPower(); delay 5 s }, then 60 s
\* (the local retries of JetsonTX2.waitInternalFlash is dead from here on and
\* is dropped)
BootPoll ==
  /\ pc = "awaitBoot" /\ todo = <<>>
  /\ \E r \in checkDutPower(variant) :
       /\ dutOn' = r
       /\ outCurrent' \in CurrentsRead(variant, r)
       /\ scriptPos' = ScriptNext(scriptPos, r)
       /\ pc' = IF BootLoopContinues(r) THEN "awaitBoot" ELSE "awaitOff"
  /\ bootLoopRead' = TRUE
  /\ retries' = 0
  /\ UNCHANGED <<conc, twin, variant, powerVoltage, hw, op, filePath, todo, log, outcome,
                 tries, offCount, winOn, stableOff, lastOuter, dutBooted, cm, nuc>>

\* the window is invalid: if (offCount !== POLL_TRIES) dutOn = true
MutWindowFailedOnlyIfNoOff(count) == count = 0
MutWindowToleratesOneOn(count) == count < POLL_TRIES - 1
WindowFailed(count) == count # POLL_TRIES

\* the condition of while (dutOn)
MutCompletionLoopRunsOnce(on) == FALSE
MutCompletionLoopLeftWhileOn(on) == ~on
CompletionLoopContinues(on) == on

\* after the completion loop: if (dutOn) throw ... else ...
AfterCompletionLoop(on) ==
  /\ stableOff' = TRUE
  /\ IF variant = "JetsonTX2"
     THEN IF on
          THEN /\ todo' = JetsonTX2_powerOffDUT(powerVoltage, hw.gpiosEnabled)
               /\ pc' = "txTimedOut"
               /\ outcome' = outcome
          ELSE todo' = <<>> /\ pc' = "wifEnd" /\ outcome' = outcome
     ELSE IF on
          THEN Throw("FlashTimeoutError")
          ELSE /\ todo' = FlasherDeviceInteractor_waitInternalFlash_off
               /\ pc' = "wifEnd"
               /\ outcome' = outcome

\* if (!dutBooted) dutBooted = await this.checkDutBooted()
MutCallsCheckDutBootedAlways(booted) == TRUE
JetsonTX2_callsCheckDutBooted(booted) == ~booted

\* one iteration of while (dutOn) up to the debounce window: delay 10 s,
\* dutOn = await checkDutPower(); JetsonTX2 also reads checkDutBooted()
\* until it has read true
OffPoll ==
  /\ pc = "awaitOff" /\ todo = <<>>
  /\ \E r \in checkDutPower(variant) :
       /\ dutOn' = r
       /\ lastOuter' = IF r THEN "on" ELSE "off"
       /\ outCurrent' \in CurrentsRead(variant, r)
       /\ scriptPos' = ScriptNext(scriptPos, r)
       /\ IF r
          THEN /\ UNCHANGED <<tries, offCount, winOn>>
               /\ IF CompletionLoopContinues(r)
                  THEN /\ pc' = "awaitOff"
                       /\ UNCHANGED <<todo, outcome, stableOff>>
                  ELSE AfterCompletionLoop(r)
          ELSE /\ tries' = 0 /\ offCount' = 0 /\ winOn' = 0
               /\ pc' = "debounce"
               /\ UNCHANGED <<todo, outcome, stableOff>>
  /\ IF variant = "JetsonTX2" /\ JetsonTX2_callsCheckDutBooted(dutBooted)
     THEN \E b \in {FlasherDeviceInteractor_checkDutPower(o) : o \in ProbeOutputs} :
            dutBooted' = b
     ELSE dutBooted' = dutBooted
  /\ UNCHANGED <<conc, twin, variant, powerVoltage, hw, op, filePath, log, retries,
                 bootLoopRead, cm, nuc>>

\* one sample of the debounce window: delay POLL_INTERVAL, read, count; with
\* the last sample the window is judged and the loop condition evaluated
Sample ==
  /\ pc = "debounce" /\ todo = <<>>
  /\ tries < POLL_TRIES
  /\ \E r \in checkDutPower(variant) :
       LET count == IF r THEN offCount ELSE offCount + 1
           on    == IF tries + 1 < POLL_TRIES THEN r
                    ELSE IF WindowFailed(count) THEN TRUE ELSE r
       IN /\ tries' = tries + 1
          /\ outCurrent' \in CurrentsRead(variant, r)
          /\ offCount' = count
          /\ winOn' = IF r THEN winOn + 1 ELSE winOn
          /\ scriptPos' = ScriptNext(scriptPos, r)
          /\ dutOn' = on
          /\ IF tries + 1 < POLL_TRIES
             THEN UNCHANGED <<pc, todo, outcome, stableOff>>
             ELSE IF CompletionLoopContinues(on)
                  THEN pc' = "awaitOff" /\ UNCHANGED <<todo, outcome, stableOff>>
                  ELSE AfterCompletionLoop(on)
  /\ UNCHANGED <<conc, twin, variant, powerVoltage, hw, op, filePath, log,
                 bootLoopRead, lastOuter, tx, cm, nuc>>

\* a probe (checkDutPower, checkDutBooted) rejects: no handler catches it
ProbeReject ==
  /\ pc \in {"awaitBoot", "awaitOff", "debounce", "txPowerOff", "txRetry",
             "txRetryLoop"}
  /\ todo = <<>>
  /\ Throw(ProbeError(variant))
  /\ UNCHANGED <<conc, twin, variant, powerVoltage, hw, op, filePath, log, fl, tx, cm, nuc>>

\* waitInternalFlash returns; flash() goes on with its last mux command
WifReturn ==
  /\ pc = "wifEnd" /\ todo = <<>>
  /\ todo' = IF InFlash THEN FlasherDeviceInteractor_flash_detach ELSE <<>>
  /\ pc' = "ret"
  /\ UNCHANGED <<conc, twin, variant, powerVoltage, hw, op, filePath, log, outcome, fl, tx,
                 cm, nuc>>

\* JetsonTX2.powerOff: powerOffDUT() only when checkDutPower() reads on
TxPowerOff ==
  /\ pc = "txPowerOff" /\ todo = <<>>
  /\ \E r \in checkDutPower(variant) :
       todo' = IF r THEN JetsonTX2_powerOffDUT(powerVoltage, hw.gpiosEnabled)
               ELSE <<>>
  /\ pc' = IF op = "powerOff" THEN "ret" ELSE "txRetry"
  /\ UNCHANGED <<conc, twin, variant, powerVoltage, hw, op, filePath, log, outcome, fl, tx,
                 cm, nuc>>

\* the condition of while (dutIsOn && --retries): the value of retries after
\* it, and whether the body runs
RetriesAfter(on, n) == IF on THEN n - 1 ELSE n
MutRetryLoopOneMoreCheck(on, n) == on /\ n # 0
RetryBodyRuns(on, n) == on /\ n - 1 # 0

\* the retry loop is left by the condition that read on as r when retries
\* was n; retries is not read again
LeaveTxRetryLoop(r, n) ==
  /\ retries' = RetriesAfter(r, n)
  /\ todo' = JetsonTX2_waitInternalFlash_boot(powerVoltage, hw.gpiosEnabled)
  /\ pc' = "awaitBoot"
  /\ UNCHANGED outcome

\* JetsonTX2.waitInternalFlash: retries = 10; dutIsOn = await checkDutPower()
TxFirstCheck ==
  /\ pc = "txRetry" /\ todo = <<>>
  /\ \E r \in checkDutPower(variant) :
       IF RetryBodyRuns(r, TX2_RETRIES)
       THEN /\ retries' = RetriesAfter(r, TX2_RETRIES)
            /\ pc' = "txRetryLoop"
            /\ UNCHANGED <<todo, outcome>>
       ELSE LeaveTxRetryLoop(r, TX2_RETRIES)
  /\ UNCHANGED <<conc, twin, variant, powerVoltage, hw, op, filePath, log, fl, dutBooted,
                 cm, nuc>>

\* one pass of the retry loop: delay 10 s, read again, the throw that
\* compares retries with 10, then the loop condition
TxRetryLoop ==
  /\ pc = "txRetryLoop" /\ todo = <<>>
  /\ \E r \in checkDutPower(variant) :
       IF retries = TX2_RETRIES
       THEN Throw("PowerOffFailedError") /\ UNCHANGED retries
       ELSE IF RetryBodyRuns(r, retries)
            THEN /\ retries' = RetriesAfter(r, retries)
                 /\ UNCHANGED <<pc, todo, outcome>>
            ELSE LeaveTxRetryLoop(r, retries)
  /\ UNCHANGED <<conc, twin, variant, powerVoltage, hw, op, filePath, log, fl, dutBooted,
                 cm, nuc>>


(***************************************************************************)
(* IntelNuc.powerOn: current-draw polling under the 6-minute timer         *)
(***************************************************************************)
\* how long a readVoutAmperage() call can take (ms)
ReadDurations == {0, 2500}

\* the scenario readings, taken 5 s apart
NucScenario == <<500, 300, 150, 50>>

NucScriptNext(pos, c, d) ==
  IF pos >= 0 /\ pos < Len(NucScenario) /\ d = 0 /\ c = NucScenario[pos + 1]
  THEN pos + 1 ELSE -1

\* the condition of while (current > 0.1 && timedOut === 0)
MutLoopIgnoresTimer(c, t) == c > NUC_THRESHOLD_MA
IntelNuc_loopContinues(c, t) == c > NUC_THRESHOLD_MA /\ t = 0

\* after the loop: clearTimeout, then if (timedOut === 1) throw ... else ...
MutAfterLoopCompletes(t) ==
  todo' = IntelNuc_powerOn_complete /\ pc' = "ret" /\ outcome' = outcome
IntelNuc_afterLoop(t) ==
  IF t = 1
  THEN Throw("FlashTimeoutError")
  ELSE todo' = IntelNuc_powerOn_complete /\ pc' = "ret" /\ outcome' = outcome

\* the first read, setTimeout(..., 360000), the first test of the condition
NucFirstRead ==
  /\ pc = "nucFirstRead" /\ todo = <<>>
  /\ \E c \in CurrentsMilli :
       /\ current' = c
       /\ timedOut' = 0
       /\ elapsed' = 0
       /\ scriptPos' = NucScriptNext(scriptPos, c, 0)
       /\ IF IntelNuc_loopContinues(c, 0)
          THEN pc' = "nucPoll" /\ UNCHANGED <<todo, outcome>>
          ELSE IntelNuc_afterLoop(0)
  /\ UNCHANGED <<conc, twin, variant, powerVoltage, hw, op, filePath, log, dutOn, tries,
                 offCount, winOn, stableOff, outCurrent, bootLoopRead,
                 lastOuter, tx, cm>>

\* one pass of the loop: delay 5 s, a read taking d ms; the timer callback
\* has run by the time the read resolves iff 360 s have passed since it was
\* armed
NucPoll ==
  /\ pc = "nucPoll" /\ todo = <<>>
  /\ \E c \in CurrentsMilli, d \in ReadDurations :
       LET e == elapsed + NUC_POLL_MS + d
           t == IF e >= NUC_TIMEOUT_MS THEN 1 ELSE timedOut
       IN /\ current' = c
          /\ timedOut' = t
          /\ elapsed' = IF e >= NUC_TIMEOUT_MS THEN NUC_TIMEOUT_MS ELSE e
          /\ scriptPos' = NucScriptNext(scriptPos, c, d)
          /\ IF IntelNuc_loopContinues(c, t)
             THEN UNCHANGED <<pc, todo, outcome>>
             ELSE IntelNuc_afterLoop(t)
  /\ UNCHANGED <<conc, twin, variant, powerVoltage, hw, op, filePath, log, dutOn, tries,
                 offCount, winOn, stableOff, outCurrent, bootLoopRead,
                 lastOuter, tx, cm>>

\* readVoutAmperage() rejects
NucReadReject ==
  /\ pc \in {"nucFirstRead", "nucPoll"} /\ todo = <<>>
  /\ Throw("driverError")
  /\ UNCHANGED <<conc, twin, variant, powerVoltage, hw, op, filePath, log, fl, tx, cm, nuc>>

(***************************************************************************)
(* BalenaFin.flash / Rpi243390.flash: USB-boot re-enumeration with retries *)
(***************************************************************************)
UsbbootDrives == {"usbboot1", "usbboot2"}
BlockDescriptions == {"Compute Module", "Other"}
Drives ==
  [kind : {"usbboot"}, id : UsbbootDrives] \cup
  [kind : {"block"}, id : BlockDescriptions]

\* resolution of the clock of the block-device wait (ms)
TickMs == 60000

\* the first onAttach: drive instanceof UsbbootDrive
MutNoDriveIsUsbboot(drive) == FALSE
IsUsbboot(drive) == drive.kind = "usbboot"

\* the second onAttach: a BlockDevice described as 'Compute Module'
MutAnyBlockDevice(drive) == drive.kind = "block"
IsComputeModuleBlock(drive) ==
  drive.kind = "block" /\ drive.id = "Compute Module"

\* the condition of while (tries < 3)
MutRetryLoopOneMore(n) == n <= MAX_TRIES
RetryLoopContinues(n) == n < MAX_TRIES

\* what follows the retry loop: the cleanup, and no throw
MutAfterLoopThrowsWhenUnwritten(d) ==
  [throws |-> d = "none", todo |-> BalenaFin_flash_cleanup]
BalenaFin_flash_afterLoop(d) ==
  [throws |-> FALSE, todo |-> BalenaFin_flash_cleanup]

\* the loop is left (break, or the condition is false)
LeaveRetryLoop(d) ==
  IF BalenaFin_flash_afterLoop(d).throws
  THEN Throw("FlashAttemptsExhaustedError")
  ELSE /\ todo' = BalenaFin_flash_afterLoop(d).todo
       /\ pc' = "ret"
       /\ outcome' = outcome

\* the attempt failed: deviceScanner.stop(), tries++, the loop condition
MutTimeoutKeepsWaiting ==
  /\ flashTries' = flashTries + 1
  /\ UNCHANGED <<pc, todo, log, outcome, dest, blockElapsed, lastEvent,
                 earlyAttach, attemptsStarted, computeModule>>
AttemptFailed ==
  /\ log' = Append(log, ScannerStop)
  /\ blockElapsed' = 0
  /\ flashTries' = flashTries + 1
  /\ dest' = "none"
  /\ lastEvent' = NoEvent /\ earlyAttach' = FALSE
  /\ IF RetryLoopContinues(flashTries + 1)
     THEN /\ todo' = BalenaFin_flash_attempt(variant, powerVoltage)
          /\ pc' = "waitUsbboot"
          /\ attemptsStarted' = attemptsStarted + 1
          /\ computeModule' = "none"
          /\ outcome' = outcome
     ELSE /\ LeaveRetryLoop("none")
          /\ UNCHANGED <<attemptsStarted, computeModule>>

\* the onDetach of the second wait: drive === computeModule
BalenaFin_onDetach(drive, attached) ==
  drive.kind = "usbboot" /\ drive.id = attached

\* the waits during which the second onAttach, the one that tests for the
\* 'Compute Module' block device, is registered
MutBlockListenerOnSinceDetachWait(wait) == wait \in {"waitDetach", "waitBlock"}
BalenaFin_flash_blockListenerOn(wait) == wait = "waitBlock"

\* the scanner emits 'attach' for some drive: the onAttach listener of the
\* pending wait (the usbboot wait or the block-device wait) tests it; the
\* detach wait has no 'attach' listener
ScannerAttach ==
  /\ pc \in {"waitUsbboot", "waitDetach", "waitBlock"} /\ todo = <<>>
  /\ \E drive \in Drives :
       /\ lastEvent' = [ev |-> "attach", drive |-> drive]
       /\ earlyAttach' = (earlyAttach \/
                            (pc # "waitBlock" /\ IsComputeModuleBlock(drive)))
       /\ IF pc = "waitUsbboot" /\ IsUsbboot(drive)
          THEN /\ computeModule' = drive.id
               /\ pc' = "waitDetach"
               /\ UNCHANGED <<todo, log, outcome, flashTries, dest, blockElapsed,
                              attemptsStarted, timeouts>>
          ELSE IF BalenaFin_flash_blockListenerOn(pc) /\ IsComputeModuleBlock(drive)
          THEN /\ dest' = drive.id
               /\ log' = Append(log, ScannerStop)
               /\ todo' = BalenaFin_flash_write(variant) \o
                          BalenaFin_flash_afterLoop(drive.id).todo
               /\ pc' = "ret"
               /\ blockElapsed' = 0
               /\ UNCHANGED <<outcome, flashTries, computeModule,
                              attemptsStarted, timeouts>>
          ELSE UNCHANGED <<pc, todo, log, outcome, flashTries, computeModule,
                           dest, blockElapsed, attemptsStarted, timeouts>>
  /\ UNCHANGED <<conc, twin, variant, powerVoltage, hw, op, filePath, fl, tx, nuc>>

\* the scanner emits 'detach' for some drive: only the detach wait listens
ScannerDetach ==
  /\ pc \in {"waitUsbboot", "waitDetach", "waitBlock"} /\ todo = <<>>
  /\ \E drive \in Drives :
       /\ lastEvent' = [ev |-> "detach", drive |-> drive]
       /\ IF pc = "waitDetach" /\ BalenaFin_onDetach(drive, computeModule)
          THEN pc' = "waitBlock" /\ blockElapsed' = 0
          ELSE UNCHANGED <<pc, blockElapsed>>
  /\ UNCHANGED <<conc, twin, variant, powerVoltage, hw, op, filePath, todo, log, outcome,
                 fl, tx, nuc, flashTries, computeModule, dest, attemptsStarted,
                 timeouts, earlyAttach>>

\* time passes in the block-device wait
BlockTick ==
  /\ pc = "waitBlock" /\ todo = <<>>
  /\ blockElapsed < BLOCK_TIMEOUT_MS
  /\ blockElapsed' = IF blockElapsed + TickMs < BLOCK_TIMEOUT_MS
                     THEN blockElapsed + TickMs ELSE BLOCK_TIMEOUT_MS
  /\ UNCHANGED <<conc, twin, variant, powerVoltage, hw, ctl, fl, tx, nuc, flashTries,
                 computeModule, dest, attemptsStarted, timeouts, lastEvent,
                 earlyAttach>>

\* the 5-minute timer fires: reject(), absorbed by .catch
BlockTimeout ==
  /\ pc = "waitBlock" /\ todo = <<>>
  /\ blockElapsed >= BLOCK_TIMEOUT_MS
  /\ timeouts' = timeouts + 1
  /\ AttemptFailed
  /\ UNCHANGED <<conc, twin, variant, powerVoltage, hw, op, filePath, fl, tx, nuc>>

\* which of the three awaited promises ends in .catch(() => ...)
MutEveryWaitHasCatch(wait) == TRUE
BalenaFin_flash_waitHasCatch(wait) == wait = "waitBlock"

\* the scanner emits 'error': it rejects the pending wait; only the
\* block-device wait has a .catch
ScannerError ==
  /\ pc \in {"waitUsbboot", "waitDetach", "waitBlock"} /\ todo = <<>>
  /\ IF BalenaFin_flash_waitHasCatch(pc)
     THEN AttemptFailed
     ELSE /\ Throw("scannerError")
          /\ UNCHANGED <<log, flashTries, dest, attemptsStarted, computeModule,
                         blockElapsed, lastEvent, earlyAttach>>
  /\ UNCHANGED <<conc, twin, variant, powerVoltage, hw, op, filePath, fl, tx, nuc, timeouts>>

(***************************************************************************)
(* Specification                                                           *)
(***************************************************************************)
Next ==
  \/ CallFlash
  \/ CallFlashFromFile
  \/ CallPowerOn
  \/ CallPowerOff
  \/ CallWaitInternalFlash
  \/ OpenDutSerial
  \/ Exec
  \/ ExecReject
  \/ Return
  \/ WifStart
  \/ BootPoll
  \/ OffPoll
  \/ Sample
  \/ ProbeReject
  \/ WifReturn
  \/ TxPowerOff
  \/ TxFirstCheck
  \/ TxRetryLoop
  \/ NucFirstRead
  \/ NucPoll
  \/ NucReadReject
  \/ ScannerAttach
  \/ ScannerDetach
  \/ BlockTick
  \/ BlockTimeout
  \/ ScannerError

Spec == Init /\ [][Next]_vars

(***************************************************************************)
(* Callers that do not await: an async method runs up to its first await   *)
(* when it is invoked and resumes at each completion; nothing in the       *)
(* interactor keeps a second invocation from starting in between.          *)
(***************************************************************************)
MaxInvocations == 2

InvokedOps == {"powerOn", "flash", "powerOff"}

\* the driver calls an invocation issues up to its first branch point
FirstAwaits(o) ==
  DriverCommands(
    CASE o = "powerOn"  -> powerOn(variant, powerVoltage, FALSE)
      [] o = "flash"    -> flash(variant, powerVoltage).todo
      [] o = "powerOff" -> IF variant = "JetsonTX2"
                           THEN JetsonTX2_enableGPIOs(FALSE)
                           ELSE DeviceInteractor_powerOff)

\* the promise of an async method resolves after its last await
MutReturnsBeforeLastAwait(remaining) == TRUE
Returns(remaining) == remaining = <<>>

\* a method of the interactor is invoked; no lock, flag or queue is tested
Invoke ==
  /\ Len(calls) < MaxInvocations
  /\ \E o \in InvokedOps :
       calls' = Append(calls, [op |-> o, todo |-> FirstAwaits(o),
                               returned |-> FALSE])
  /\ overlapped' = (overlapped \/ \E i \in DOMAIN calls : ~calls[i].returned)
  /\ UNCHANGED <<twin, variant, powerVoltage, hw, ctl, fl, tx, cm, nuc, drv>>

\* the next awaited driver call of an invocation is issued and completes
Issue ==
  \E i \in DOMAIN calls :
    /\ calls[i].todo # <<>>
    /\ drv' = IF drv # <<>> /\ drv[Len(drv)] = i THEN drv ELSE Append(drv, i)
    /\ hw' = Effect(hw, Head(calls[i].todo))
    /\ calls' = [calls EXCEPT ![i].todo = Tail(@)]
    /\ UNCHANGED <<twin, variant, powerVoltage, ctl, fl, tx, cm, nuc, overlapped>>

\* an invocation returns to its caller
Settle ==
  \E i \in DOMAIN calls :
    /\ ~calls[i].returned
    /\ Returns(calls[i].todo)
    /\ calls' = [calls EXCEPT ![i].returned = TRUE]
    /\ UNCHANGED <<twin, variant, powerVoltage, hw, ctl, fl, tx, cm, nuc, drv,
                   overlapped>>

NextUnawaited ==
  \/ Invoke
  \/ Issue
  \/ Settle

SpecUnawaited == Init /\ [][NextUnawaited]_vars


(***************************************************************************)
(* Two runs of the polls of JetsonTX2.waitInternalFlash, side by side: in  *)
(* every step both take the same checkDutPower reading and each its own    *)
(* checkDutBooted reading                                                  *)
(***************************************************************************)
\* after while (dutOn): if (dutOn) { await this.powerOffDUT(); throw } else
\* return
JetsonTX2_waitInternalFlash_afterLoop(s) ==
  IF s.dutOn
  THEN [s EXCEPT !.pc = "raised",
                 !.issued = @ \o JetsonTX2_powerOffDUT(powerVoltage, TRUE)]
  ELSE [s EXCEPT !.pc = "returned"]

\* one poll of a run in state s: r is what checkDutPower() reads, b what
\* checkDutBooted() reads if it is called
JetsonTX2_waitInternalFlash_poll(s, r, b) ==
  CASE s.pc = "awaitBoot" ->
         [s EXCEPT !.dutOn = r,
                   !.pc = IF BootLoopContinues(r) THEN "awaitBoot" ELSE "awaitOff"]
    [] s.pc = "awaitOff" ->
         LET asks == JetsonTX2_callsCheckDutBooted(s.dutBooted)
             s1 == [s EXCEPT !.dutOn = r,
                             !.dutBooted = IF asks THEN b ELSE @,
                             !.askedAgain = @ \/ (asks /\ s.dutBooted)]
         IN IF r
            THEN IF CompletionLoopContinues(r)
                 THEN s1
                 ELSE JetsonTX2_waitInternalFlash_afterLoop(s1)
            ELSE [s1 EXCEPT !.pc = "debounce", !.tries = 0, !.offCount = 0]
    [] s.pc = "debounce" ->
         LET count == IF r THEN s.offCount ELSE s.offCount + 1
             last  == s.tries + 1 = POLL_TRIES
             on    == IF last /\ WindowFailed(count) THEN TRUE ELSE r
             s1    == [s EXCEPT !.tries = @ + 1, !.offCount = count, !.dutOn = on]
         IN IF ~last
            THEN s1
            ELSE IF CompletionLoopContinues(on)
                 THEN [s1 EXCEPT !.pc = "awaitOff"]
                 ELSE JetsonTX2_waitInternalFlash_afterLoop(s1)
    [] OTHER -> s

\* both runs take their next poll
TwoRunsPoll ==
  /\ variant = "JetsonTX2"
  /\ \E i \in DOMAIN twin : twin[i].pc \notin {"returned", "raised"}
  /\ \E r \in checkDutPower(variant) :
       \E b1, b2 \in {FlasherDeviceInteractor_checkDutPower(o) : o \in ProbeOutputs} :
         twin' = <<JetsonTX2_waitInternalFlash_poll(twin[1], r, b1),
                   JetsonTX2_waitInternalFlash_poll(twin[2], r, b2)>>
  /\ UNCHANGED <<variant, powerVoltage, hw, ctl, fl, tx, cm, nuc, conc>>

NextTwoRuns == TwoRunsPoll

SpecTwoRuns == Init /\ [][NextTwoRuns]_vars


(***************************************************************************)
(* Progress: awaited driver calls, shell commands and delays complete,     *)
(* timers fire, and the compute module re-enumerates (its USB-boot drive   *)
(* attaches and detaches)                                                  *)
(***************************************************************************)
\* the scanner emits the attach the usbboot wait is waiting for
UsbbootAttached == ScannerAttach /\ pc = "waitUsbboot" /\ pc' = "waitDetach"

\* the scanner emits the detach of the attached usbboot drive
UsbbootDetached == ScannerDetach /\ pc = "waitDetach" /\ pc' = "waitBlock"

Fairness ==
  /\ WF_vars(Exec)
  /\ WF_vars(Return)
  /\ WF_vars(UsbbootAttached)
  /\ WF_vars(UsbbootDetached)
  /\ WF_vars(BlockTick)
  /\ WF_vars(BlockTimeout)
  /\ WF_vars(NucFirstRead)
  /\ WF_vars(NucPoll)

SpecFair == Init /\ [][Next]_vars /\ Fairness


(***************************************************************************)
(* Properties                                                              *)
(***************************************************************************)
Last(seq, k) == SubSeq(seq, Len(seq) - k + 1, Len(seq))
Count(seq, c) == Cardinality({i \in DOMAIN seq : seq[i] = c})
Issued(seq, names) == \E i \in DOMAIN seq : seq[i].c \in names
Done(o) == op = o /\ pc = "done"
ComputeModuleFlash == variant \in ComputeModuleVariants /\ InFlash

\* C1 (as claimed): for every variant, flashFromFile(path) and flash(path)
\* with a path ending in '.zip' fail with UnsupportedFormatError: no
\* HardwareDriver operation is ever issued for such a path, and the
\* operation ends with that error and no other outcome.
C1_ZipRejectedBeforeDriver ==
  (InFlash /\ EndsWith(filePath, DotZip)) =>
    /\ ~Issued(log, DriverOps)
    /\ (pc = "done" => outcome = "UnsupportedFormatError")

\* C2: the completion loop of waitInternalFlash (base and JetsonTX2) is left
\* only after a debounce window of POLL_TRIES samples in which no sample
\* read on.
C2_StableOffOnlyAfterAllOffWindow ==
  stableOff => (tries = POLL_TRIES /\ winOn = 0 /\ offCount = POLL_TRIES)

C2_Witness ==
  /\ variant = "JetsonTX2"
  /\ stableOff
  /\ tries = POLL_TRIES

\* C3 (as claimed): with the readings on, on, off, on and then 20 times off,
\* FlasherDeviceInteractor.waitInternalFlash has accepted off as stable once
\* the 24th reading is consumed.
C3_DoneAfterTwentyTrailingOffs ==
  (variant \in PlainFlasherVariants /\ scriptPos = 4 + POLL_TRIES) => stableOff

\* C3 (amended): with the readings on, on, off, on and then off, the window
\* opened by the first off is invalid and is still sampled to its end (19
\* of the trailing offs), the 20th trailing off is the next outer poll, and
\* off is accepted as stable exactly with the 40th trailing off (the 44th
\* reading), not before.
C3_DoneAfterFortyTrailingOffs ==
  (variant \in PlainFlasherVariants /\ scriptPos > 0) =>
    /\ scriptPos <= 4 + 2 * POLL_TRIES
    /\ stableOff <=> (scriptPos = 4 + 2 * POLL_TRIES)
    /\ (scriptPos = 3 + POLL_TRIES /\ outcome = "running") =>
         (pc = "awaitOff" /\ dutOn /\ winOn = 1)
    /\ (scriptPos = 4 + POLL_TRIES /\ outcome = "running") =>
         (pc = "debounce" /\ tries = 0)

C3_Witness ==
  /\ variant \in PlainFlasherVariants
  /\ scriptPos = 4 + 2 * POLL_TRIES
  /\ stableOff
  /\ pc = "wifEnd"

\* C4 (as claimed): in the compute-module flash() at most 3 attempts are
\* started, the counter stays in 0..3, the block-device wait never lasts
\* beyond its 5 minutes and belongs to the one attempt in progress, and every
\* wait that did not end by a match ended by the timeout.
C4_WaitEndsByMatchOrTimeout ==
  ComputeModuleFlash =>
    /\ flashTries \in 0..MAX_TRIES
    /\ attemptsStarted \in 0..MAX_TRIES
    /\ attemptsStarted <= flashTries + 1
    /\ blockElapsed <= BLOCK_TIMEOUT_MS
    /\ flashTries = timeouts

\* C4 (amended): as above, but a wait that did not end by a match ended by
\* the timeout or by a scanner 'error' event, which is absorbed and counted
\* as a failed attempt like a timeout.
C4_AtMostThreeBoundedAttempts ==
  ComputeModuleFlash =>
    /\ flashTries \in 0..MAX_TRIES
    /\ attemptsStarted \in 0..MAX_TRIES
    /\ attemptsStarted <= flashTries + 1
    /\ (pc \in {"waitUsbboot", "waitDetach", "waitBlock"} =>
          attemptsStarted = flashTries + 1)
    /\ blockElapsed <= BLOCK_TIMEOUT_MS
    /\ (pc # "waitBlock" => blockElapsed = 0)
    /\ timeouts <= flashTries

C4_Witness ==
  /\ ComputeModuleFlash
  /\ flashTries = MAX_TRIES
  /\ attemptsStarted = MAX_TRIES
  /\ timeouts = MAX_TRIES - 1
  /\ pc = "done"

\* C5: when the block-device wait timed out in all 3 attempts, flashToDisk
\* has not been called and the exhaustion raises nothing: flash() goes on to
\* its cleanup and returns normally; the only error it can still end with is
\* the rejection of the cleanup's own powerOffDUT by the driver.
C5_ExhaustionReturnsNormally ==
  (ComputeModuleFlash /\ timeouts = MAX_TRIES) =>
    /\ ~Issued(log, {"flashToDisk"})
    /\ outcome \in {"running", "ok", "driverError"}
    /\ (outcome = "driverError" => Last(log, 1) = <<PowerOffDUT>>)
    /\ (pc = "done" /\ outcome # "driverError" => outcome = "ok")

C5_Witness ==
  /\ ComputeModuleFlash
  /\ timeouts = MAX_TRIES
  /\ pc = "done"
  /\ outcome = "ok"

\* C6: when the compute-module flash() returns, after a write or after
\* exhaustion, its last two calls are toggleUsb(off, 4) and then
\* powerOffDUT(); once the retry loop is left exactly these two are pending.
C6_CleanupIsLast ==
  ComputeModuleFlash =>
    /\ (pc = "done" /\ outcome = "ok") =>
         (Len(log) >= 2 /\
          Last(log, 2) = <<ToggleUsb(0, USB_PORT), PowerOffDUT>>)
    /\ (pc = "ret" /\ Len(todo) >= 2) =>
         Last(todo, 2) = <<ToggleUsb(0, USB_PORT), PowerOffDUT>>

C6_Witness ==
  /\ ComputeModuleFlash
  /\ pc = "done" /\ outcome = "ok"
  /\ Issued(log, {"flashToDisk"})

\* C7 (as claimed): IntelNuc.powerOn raises the timeout failure when the
\* timer has fired and the last sample is above 0.1 A, and never raises it
\* when a sampled current is at most 0.1 A.
C7_CompletesOnceCurrentDrops ==
  (variant = "IntelNuc" /\ op = "powerOn") =>
    /\ (pc = "done" /\ timedOut = 1 /\ current > NUC_THRESHOLD_MA) =>
         outcome = "FlashTimeoutError"
    /\ (outcome = "FlashTimeoutError") => current > NUC_THRESHOLD_MA

\* C8 (as claimed): with the readings 0.5, 0.3, 0.15, 0.05 A taken 5 s apart
\* IntelNuc.powerOn raises no timeout and calls powerOffDUT(),
\* switchSdToHost(1000), powerOnDUT() in this order, each exactly once.
C8_CompletionCallsOnceEach ==
  (variant = "IntelNuc" /\ op = "powerOn" /\ scriptPos = Len(NucScenario)) =>
    /\ outcome # "FlashTimeoutError"
    /\ (pc = "done" /\ outcome = "ok") =>
         /\ Last(log, 3) = <<PowerOffDUT, SwitchSdToHost(1000), PowerOnDUT>>
         /\ Count(log, PowerOffDUT) = 1
         /\ Count(log, SwitchSdToHost(1000)) = 1
         /\ Count(log, PowerOnDUT) = 1

\* C8 (amended): with these readings no timeout is raised and the calls
\* issued after the last reading are exactly powerOffDUT(),
\* switchSdToHost(1000), powerOnDUT(), in this order; over the whole
\* powerOn() call switchSdToHost is issued once, and powerOffDUT and
\* powerOnDUT twice each, because both are also issued before the first
\* reading.
C8_CompletionCallsAfterLastReading ==
  (variant = "IntelNuc" /\ op = "powerOn" /\ scriptPos = Len(NucScenario)) =>
    /\ outcome # "FlashTimeoutError"
    /\ timedOut = 0
    /\ pc \in {"ret", "done"}
    /\ (pc = "done" /\ outcome = "ok") =>
         /\ Len(log) = 8
         /\ SubSeq(log, 1, 4) = <<PowerOffDUT, SetVout(powerVoltage),
                                  SwitchSdToDUT(5000), PowerOnDUT>>
         /\ log[5] = Delay(5000)
         /\ Last(log, 3) = <<PowerOffDUT, SwitchSdToHost(1000), PowerOnDUT>>
         /\ Count(log, PowerOffDUT) = 2
         /\ Count(log, SwitchSdToHost(1000)) = 1
         /\ Count(log, PowerOnDUT) = 2

C8_Witness ==
  /\ variant = "IntelNuc" /\ op = "powerOn"
  /\ scriptPos = Len(NucScenario)
  /\ pc = "done" /\ outcome = "ok"

\* C9 (as claimed): a shell-command failure inside checkDutPower never makes
\* an operation fail.
C9_ProbeFailureNeverPropagates ==
  outcome # "probeShellError"

\* C10: for every variant, when powerOn() has returned normally
\* setVout(powerVoltage) was issued, the rig's voltage is powerVoltage and
\* the last power command given to the DUT is a power-on.
C10_PowerOnLeavesDutPowered ==
  (Done("powerOn") /\ outcome = "ok") =>
    /\ Count(log, SetVout(powerVoltage)) >= 1
    /\ hw.vout = powerVoltage
    /\ hw.dutPower = "on"

C10_Witness ==
  /\ Done("powerOn") /\ outcome = "ok"
  /\ variant = "RtRpi300"
  /\ hw.dutPower = "on"

\* C11: the default powerOff() (every variant but JetsonTX2, which overrides
\* it) issues closeDutSerial() first and powerOffDUT() only after it has
\* completed; when closeDutSerial() is rejected powerOff() ends there and
\* powerOffDUT() is not issued.
C11_SerialClosedBeforePowerRemoved ==
  (op = "powerOff" /\ variant # "JetsonTX2") =>
    /\ log \o todo = <<CloseDutSerial, PowerOffDUT>> \/ pc = "done"
    /\ Issued(log, {"powerOffDUT"}) =>
         (log = <<CloseDutSerial, PowerOffDUT>> /\ ~hw.serialOpen)
    /\ (pc = "done" /\ outcome = "ok") => log = <<CloseDutSerial, PowerOffDUT>>
    /\ (pc = "done" /\ outcome # "ok") =>
         (outcome = "driverError" /\ todo = <<>> /\
          log \in {<<CloseDutSerial>>, <<CloseDutSerial, PowerOffDUT>>})

C11_Witness ==
  /\ Done("powerOff") /\ variant = "RaspberryPi"
  /\ outcome = "driverError"
  /\ log = <<CloseDutSerial>>
  /\ hw.dutPower = "on"

\* C12: RaspberryPi.powerOn() issues exactly setVout(5), switchSdToDUT(1000),
\* powerOnDUT(), in this order, each after the one before it has completed.
C12_RaspberryPiPowerOnSequence ==
  (variant = "RaspberryPi" /\ op = "powerOn") =>
    /\ log \o todo = <<SetVout(5), SwitchSdToDUT(1000), PowerOnDUT>>
         \/ (pc = "done" /\ outcome = "driverError")
    /\ \A i \in DOMAIN log :
         log[i] = <<SetVout(5), SwitchSdToDUT(1000), PowerOnDUT>>[i]
    /\ (pc = "done" /\ outcome = "ok") =>
         log = <<SetVout(5), SwitchSdToDUT(1000), PowerOnDUT>>

C12_Witness ==
  /\ Done("powerOn") /\ variant = "RaspberryPi" /\ outcome = "ok"
  /\ Len(log) = 3

\* C13: powerVoltage keeps the value its constructor set through every
\* powerOn/flash/powerOff/waitInternalFlash call, and that value is the
\* documented one: IntelNuc 12, JetsonTX2 5, Imx8mmVarDartNRT 5, flasher
\* variants within 5..12, compute-module variants within 5..12, SD-boot
\* variants within 5..24.
C13_PowerVoltageFixedAndDocumented ==
  /\ powerVoltage = ConstructorVoltage(variant)
  /\ variant = "IntelNuc" => powerVoltage = 12
  /\ variant = "JetsonTX2" => powerVoltage = 5
  /\ variant = "Imx8mmVarDartNRT" => powerVoltage = 5
  /\ variant \in FlasherVariants => powerVoltage \in 5..12
  /\ variant \in ComputeModuleVariants => powerVoltage \in 5..12
  /\ variant \in SdBootVariants => powerVoltage \in 5..24

C13_Witness ==
  /\ variant = "IntelNuc"
  /\ Done("powerOff") /\ outcome = "ok"
  /\ hw.vout = 12
  /\ powerVoltage = 12

\* the switchSdToHost(1000) calls that waitInternalFlash of a variant makes
\* itself before it returns
MuxToHostInsideWait(v) == IF v = "JetsonTX2" THEN 0 ELSE 1

\* C14: FlasherDeviceInteractor.flash() issues the driver write first, enters
\* waitInternalFlash only when the write has completed, and issues its final
\* switchSdToHost(1000) only when waitInternalFlash has returned (the stable
\* off was accepted); when the write or the wait fails nothing more is
\* issued.
C14_WriteThenWaitThenDetach ==
  (variant \in FlasherVariants /\ InFlash /\ outcome # "UnsupportedFormatError") =>
    /\ log # <<>> => (log[1] = DriverFlash /\ Count(log, DriverFlash) = 1)
    /\ pc = "wifStart" =>
         \/ (log = <<>> /\ todo = <<DriverFlash>>)
         \/ (log = <<DriverFlash>> /\ todo = <<>>)
    /\ pc \notin {"wifStart", "done"} => Len(log) >= 1
    /\ Count(log, SwitchSdToHost(1000)) <= MuxToHostInsideWait(variant) + 1
    /\ Count(log, SwitchSdToHost(1000)) > MuxToHostInsideWait(variant) =>
         /\ stableOff /\ ~dutOn
         /\ pc \in {"ret", "done"}
         /\ todo = <<>>
         /\ Last(log, 1) = <<SwitchSdToHost(1000)>>
    /\ (pc = "done" /\ outcome = "ok") =>
         Count(log, SwitchSdToHost(1000)) = MuxToHostInsideWait(variant) + 1
    /\ (pc = "done" /\ outcome # "ok") => todo = <<>>
    /\ (pc = "done" /\ outcome # "ok" /\ ~stableOff) =>
         ~Issued(log, {"switchSdToHost"})

C14_Witness ==
  /\ variant = "BeagleBone" /\ Done("flash") /\ outcome = "ok"
  /\ Last(log, 3) = <<PowerOffDUT, SwitchSdToHost(1000), SwitchSdToHost(1000)>>

\* C15: flash() returns normally only from a terminal state of its protocol:
\* the compute-module flash() after flashToDisk has completed or after its 3
\* attempts are used up, the direct and the two-phase flash() after the
\* driver write has completed; no call is pending when flash() returns.
C15_FlashReturnsFromTerminalState ==
  (InFlash /\ pc = "done" /\ outcome = "ok") =>
    /\ todo = <<>>
    /\ variant \in ComputeModuleVariants =>
         /\ Count(log, FlashToDisk) <= 1
         /\ Issued(log, {"flashToDisk"}) \/ flashTries = MAX_TRIES
         /\ Issued(log, {"flashToDisk"}) =>
              (dest # "none" /\ flashTries < MAX_TRIES /\
               Last(log, 3)[1] = FlashToDisk)
    /\ variant \in FlasherVariants =>
         (log[1] = DriverFlash /\ Count(log, DriverFlash) = 1)
    /\ variant \notin (ComputeModuleVariants \cup FlasherVariants) =>
         log = <<DriverFlash>>

C15_Witness ==
  /\ variant = "Rpi243390" /\ Done("flash") /\ outcome = "ok"
  /\ flashTries = 1
  /\ Issued(log, {"flashToDisk"})

\* C16 (as claimed): when flashFromFile() goes on to flash() with a path
\* ending in '.gz', what flash() and the driver are handed has been
\* decompressed exactly once and holds no gzip layer any more; a raw image
\* is handed over with no decompression applied.
C16_GzipDecompressedOnce ==
  (op = "flashFromFile" /\ outcome # "UnsupportedFormatError") =>
    LET src == DeviceInteractor_flashFromFile_source(filePath)
    IN /\ src.path = filePath
       /\ src.gunzips = (IF EndsWith(filePath, DotGz) THEN 1 ELSE 0)
       /\ GzipLayers(src.path) - src.gunzips = 0

\* C17: powerOn() never issues closeDutSerial(): a serial capture that is
\* open when powerOn() starts is open at every step of it and when it
\* returns, for every variant, IntelNuc with its internal powerOffDUT()
\* included; the serial capture is closed only by a closeDutSerial() of the
\* default powerOff().
C17_PowerOnKeepsSerialOpen ==
  [][ /\ op' = "powerOn" =>
           /\ ~Issued(log', {"closeDutSerial"})
           /\ hw.serialOpen => hw'.serialOpen
      /\ (hw.serialOpen /\ ~hw'.serialOpen) =>
           /\ op' = "powerOff" /\ variant # "JetsonTX2"
           /\ log' = <<CloseDutSerial>>
    ]_vars

C17_Witness ==
  /\ variant = "IntelNuc" /\ Done("powerOn") /\ outcome = "ok"
  /\ hw.serialOpen
  /\ Count(log, PowerOffDUT) = 2

\* C19: in FlasherDeviceInteractor.waitInternalFlash the driver commands
\* powerOffDUT, switchSdToDUT(1000), setVout(powerVoltage), powerOnDUT are
\* issued in this order, and a checkDutPower probe has been taken only when
\* all four have completed; while the polls run no command is pending.
C19_BootCommandsBeforeFirstProbe ==
  (variant \in PlainFlasherVariants /\
   op \in {"waitInternalFlash", "flash", "flashFromFile"}) =>
    LET w == IF InFlash /\ log # <<>> THEN Tail(log) ELSE log
        boot == <<PowerOffDUT, SwitchSdToDUT(1000), SetVout(powerVoltage),
                  PowerOnDUT>>
        issued == DriverCommands(SubSeq(w, 1, IF Len(w) < 5 THEN Len(w) ELSE 5))
    IN /\ \A i \in DOMAIN issued : issued[i] = boot[i]
       /\ (pc = "awaitBoot" /\ todo # <<>>) =>
            (scriptPos = 0 /\ ~dutOn /\ DriverCommands(w \o todo) = boot)
       /\ scriptPos # 0 => (Len(w) >= 5 /\ issued = boot)
       /\ pc \in {"awaitOff", "debounce"} =>
            (todo = <<>> /\ scriptPos # 0 /\ issued = boot)
       /\ (pc = "awaitBoot" /\ todo = <<>>) => issued = boot

C19_Witness ==
  /\ variant = "CoralDevBoard" /\ op = "waitInternalFlash"
  /\ pc = "debounce" /\ tries = 3
  /\ Len(log) = 5

\* C20: the polls of FlasherDeviceInteractor.waitInternalFlash have no
\* timeout: a step taken in the boot-detection poll after a false reading
\* stays in that poll, with nothing issued, returned or raised, and the poll
\* is left only by a true reading (or by a probe that rejects); the
\* completion poll is left only to the end of the wait after an all-off
\* window (or by a probe that rejects); the timeout error is never raised.
C20_PollsHaveNoTimeout ==
  [][ (variant \in PlainFlasherVariants) =>
        /\ outcome' # "FlashTimeoutError"
        /\ (pc = "awaitBoot" /\ todo = <<>>) =>
             \/ /\ ~dutOn' /\ pc' = "awaitBoot" /\ todo' = <<>>
                /\ log' = log /\ outcome' = "running"
             \/ /\ dutOn' /\ pc' = "awaitOff" /\ todo' = <<>>
                /\ log' = log /\ outcome' = "running"
             \/ /\ pc' = "done" /\ outcome' = ProbeError(variant)
        /\ pc \in {"awaitOff", "debounce"} =>
             \/ /\ pc' \in {"awaitOff", "debounce"} /\ todo' = <<>>
                /\ log' = log /\ outcome' = "running"
             \/ /\ pc' = "wifEnd" /\ ~dutOn'
                /\ tries' = POLL_TRIES /\ offCount' = POLL_TRIES /\ winOn' = 0
                /\ outcome' = "running"
             \/ /\ pc' = "done" /\ outcome' = ProbeError(variant)
    ]_vars

C20_Witness ==
  /\ variant = "BeagleBone" /\ op = "waitInternalFlash"
  /\ pc = "awaitBoot" /\ todo = <<>>
  /\ scriptPos = -1 /\ ~dutOn
  /\ outcome = "running"

\* the driver calls of no invocation lie between two driver calls of another
NoInterleaving(d) ==
  \A i, j, k \in DOMAIN d :
    (i < j /\ j < k /\ d[i] = d[k]) => d[j] = d[i]

C21_TimeoutErrorUnreachable ==
  variant \in FlasherVariants =>
    /\ outcome # "FlashTimeoutError"
    /\ pc # "txTimedOut"
    /\ pc = "wifEnd" => (~dutOn /\ offCount = POLL_TRIES)

C21_Witness ==
  /\ variant = "JetsonTX2" /\ Done("waitInternalFlash")
  /\ outcome = "ok" /\ ~dutOn /\ winOn = 0


\* the last command of seq whose name is one of names
LastOf(seq, names) ==
  LET I == {i \in DOMAIN seq : seq[i].c \in names}
  IN seq[CHOOSE i \in I : \A j \in I : j <= i]

\* C22: in FlasherDeviceInteractor.waitInternalFlash (the variants that do
\* not override it) the closing powerOffDUT and switchSdToHost(1000) are
\* issued, in this order, only after a debounce window that confirmed off,
\* never before one; and when flash() of such a variant returns normally the
\* last mux command issued is switchSdToHost and the last power command
\* issued is powerOffDUT, so the rig was last told host and off.
C22_PowerOffAndMuxAfterConfirmedOff ==
  (variant \in PlainFlasherVariants /\ (InFlash \/ op = "waitInternalFlash")) =>
    /\ (Count(log, PowerOffDUT) > 1 \/ Issued(log, {"switchSdToHost"})) =>
         (stableOff /\ ~dutOn /\ tries = POLL_TRIES /\ offCount = POLL_TRIES
            /\ winOn = 0)
    /\ Issued(log, {"switchSdToHost"}) => Count(log, PowerOffDUT) = 2
    /\ ~stableOff =>
         \A i \in DOMAIN todo : todo[i].c # "switchSdToHost"
    /\ (InFlash /\ pc = "done" /\ outcome = "ok") =>
         /\ LastOf(log, {"switchSdToDUT", "switchSdToHost"}) = SwitchSdToHost(1000)
         /\ LastOf(log, {"powerOnDUT", "powerOffDUT"}) = PowerOffDUT
         /\ hw.mux = "host" /\ hw.dutPower = "off"

C22_Witness ==
  /\ variant = "Rockpi4bRk3399" /\ op = "flashFromFile"
  /\ pc = "done" /\ outcome = "ok"
  /\ Count(log, PowerOffDUT) = 2
  /\ hw.mux = "host" /\ hw.dutPower = "off"


IsPrefix(s, t) == Len(s) <= Len(t) /\ s = SubSeq(t, 1, Len(s))

\* C23: FlasherDeviceInteractor.powerOn() issues setVout(powerVoltage),
\* switchSdToHost(1000), powerOnDUT() in this order and nothing else; no
\* powerOn() of a flasher variant muxes the boot media to the DUT; the mux
\* of a flasher variant goes to the DUT only in a step of waitInternalFlash
\* (called directly or by flash()), by its switchSdToDUT(1000); and whenever
\* powerOn() has returned the media is at the host.
C23_PowerOnNeverMuxesToDut ==
  [][ (variant \in FlasherVariants) =>
        /\ (variant \in PlainFlasherVariants /\ op' = "powerOn") =>
             /\ IsPrefix(log', <<SetVout(powerVoltage), SwitchSdToHost(1000),
                                 PowerOnDUT>>)
             /\ (pc' = "done" /\ outcome' = "ok") => Len(log') = 3
        /\ op' = "powerOn" =>
             /\ ~Issued(log', {"switchSdToDUT"})
             /\ hw'.mux # "dut" \/ hw.mux = "dut"
             /\ (pc' = "done" /\ outcome' = "ok") => hw'.mux = "host"
        /\ (hw'.mux = "dut" /\ hw.mux # "dut") =>
             /\ op \in {"waitInternalFlash", "flash", "flashFromFile"}
             /\ pc = "awaitBoot"
             /\ Last(log', 1) = <<SwitchSdToDUT(1000)>>
    ]_vars

C23_Witness ==
  /\ variant = "Imx8mmebcrs08a2" /\ Done("powerOn") /\ outcome = "ok"
  /\ log = <<SetVout(powerVoltage), SwitchSdToHost(1000), PowerOnDUT>>
  /\ hw.mux = "host"


\* C24: in the compute-module flash() a block-device wait that times out
\* fails only that attempt: the step raises nothing, stops the scanner and
\* counts the attempt; while fewer than 3 attempts have failed the next
\* attempt starts from step 1, with toggleUsb(off), powerOffDUT(), the settle
\* delay, the variant's powerOnFlash() and a new scanner in this order and
\* with nothing remembered of the attempt before; after the 3rd failure no
\* attempt follows, only the cleanup.
C24_TimeoutFailsOnlyTheAttempt ==
  [][ (ComputeModuleFlash /\ timeouts' = timeouts + 1) =>
        /\ pc = "waitBlock" /\ blockElapsed = BLOCK_TIMEOUT_MS
        /\ outcome' = "running"
        /\ flashTries' = flashTries + 1
        /\ log' = Append(log, ScannerStop)
        /\ flashTries' < MAX_TRIES =>
             /\ todo' = <<ToggleUsb(0, USB_PORT), PowerOffDUT,
                          Delay(IF variant = "Rpi243390" THEN 1000 ELSE 8000)>>
                        \o powerOnFlash(variant, powerVoltage)
                        \o <<ScannerStart>>
             /\ pc' = "waitUsbboot"
             /\ attemptsStarted' = attemptsStarted + 1
             /\ computeModule' = "none" /\ dest' = "none"
             /\ blockElapsed' = 0 /\ lastEvent' = NoEvent
        /\ flashTries' = MAX_TRIES =>
             /\ todo' = <<ToggleUsb(0, USB_PORT), PowerOffDUT>>
             /\ pc' = "ret"
             /\ attemptsStarted' = attemptsStarted
    ]_vars

C24_Witness ==
  /\ variant = "BalenaFinV09" /\ InFlash
  /\ timeouts = 1 /\ flashTries = 1 /\ attemptsStarted = 2
  /\ pc = "waitUsbboot" /\ todo = <<>>
  /\ Last(log, 1) = <<ScannerStart>>
  /\ outcome = "running"

\* the event a pending wait of the compute-module flash() is waiting for
Awaited(p, attached, e) ==
  \/ p = "waitUsbboot" /\ e.ev = "attach" /\ e.drive.kind = "usbboot"
  \/ p = "waitDetach" /\ e.ev = "detach"
       /\ e.drive = [kind |-> "usbboot", id |-> attached]
  \/ p = "waitBlock" /\ e.ev = "attach"
       /\ e.drive = [kind |-> "block", id |-> "Compute Module"]

\* C25: in the compute-module flash() the usbboot wait is left only by the
\* attach of a USB-boot drive, the detach wait only by the detach of that
\* same drive, and flashToDisk is scheduled only by the attach of a block
\* device described as 'Compute Module' in the block-device wait of the same
\* attempt (or a wait is left by a scanner error or the timer); an attach or
\* detach of any other drive changes nothing of the protocol; flashToDisk is
\* called at most once per flash() call and no attempt starts after it.
C25_WriteOnlyAfterOrderedEvents ==
  [][ (ComputeModuleFlash /\ pc # "done") =>
        /\ (pc = "waitUsbboot" /\ todo = <<>> /\ pc' # pc) =>
             \/ /\ pc' = "waitDetach"
                /\ lastEvent'.ev = "attach" /\ lastEvent'.drive.kind = "usbboot"
                /\ computeModule' = lastEvent'.drive.id
             \/ pc' = "done" /\ outcome' = "scannerError"
        /\ (pc = "waitDetach" /\ pc' # pc) =>
             \/ /\ pc' = "waitBlock"
                /\ lastEvent' = [ev |-> "detach",
                                 drive |-> [kind |-> "usbboot", id |-> computeModule]]
                /\ computeModule' = computeModule
             \/ pc' = "done" /\ outcome' = "scannerError"
        /\ (Issued(todo', {"flashToDisk"}) /\ ~Issued(todo, {"flashToDisk"})) =>
             /\ pc = "waitBlock"
             /\ computeModule \in UsbbootDrives
             /\ lastEvent' = [ev |-> "attach",
                              drive |-> [kind |-> "block", id |-> "Compute Module"]]
             /\ flashTries' = flashTries /\ attemptsStarted' = attemptsStarted
             /\ ~Issued(log, {"flashToDisk"})
        /\ (lastEvent' # lastEvent /\ lastEvent' # NoEvent
              /\ ~Awaited(pc, computeModule, lastEvent')) =>
             UNCHANGED <<pc, todo, log, outcome, hw, flashTries, computeModule,
                         dest, blockElapsed, attemptsStarted, timeouts>>
        /\ Count(log', FlashToDisk) <= 1
        /\ Issued(log, {"flashToDisk"}) =>
             /\ attemptsStarted' = attemptsStarted
             /\ pc' \in {"ret", "done"}
             /\ \A i \in DOMAIN todo' :
                  todo'[i] \notin {FlashToDisk, ScannerStart}
    ]_vars

C25_Witness ==
  /\ variant = "RevPiCore3" /\ InFlash /\ pc = "done" /\ outcome = "ok"
  /\ Count(log, FlashToDisk) = 1
  /\ computeModule = "usbboot2" /\ flashTries = 2
  /\ lastEvent = [ev |-> "attach",
                  drive |-> [kind |-> "block", id |-> "Compute Module"]]


\* C26: when awaited calls complete, timers fire, and in every attempt the
\* USB-boot drive attaches and detaches, every compute-module flash()
\* eventually settles, having started at most 3 attempts; the usbboot wait
\* and the detach wait have no timer: as long as the awaited attach or
\* detach does not occur (and the scanner reports no error) flash() stays in
\* that wait of that attempt.
C26_FlashEventuallyReturns ==
  /\ (ComputeModuleFlash /\ pc # "done") ~> (pc = "done")
  /\ [](ComputeModuleFlash => attemptsStarted <= MAX_TRIES)
  /\ [][ (ComputeModuleFlash /\ pc \in {"waitUsbboot", "waitDetach"}
            /\ todo = <<>> /\ outcome' # "scannerError"
            /\ ~Awaited(pc, computeModule, lastEvent')) =>
           (pc' = pc /\ todo' = <<>> /\ flashTries' = flashTries
              /\ attemptsStarted' = attemptsStarted /\ blockElapsed' = 0) ]_vars

C26_Witness ==
  /\ variant = "BalenaFin" /\ InFlash /\ pc = "done" /\ outcome = "ok"
  /\ attemptsStarted = MAX_TRIES /\ timeouts = 2
  /\ Count(log, FlashToDisk) = 1


\* what a run shows of itself: where it is, its locals but dutBooted, and the
\* driver and GPIO commands it has issued
Observable(s) ==
  [pc |-> s.pc, dutOn |-> s.dutOn, tries |-> s.tries, offCount |-> s.offCount,
   issued |-> s.issued]

\* C27: two runs of the polls of JetsonTX2.waitInternalFlash that read the
\* same checkDutPower values and any checkDutBooted values, equal or not,
\* are at every step at the same place, with the same commands issued and
\* the same outcome: checkDutBooted influences nothing but the local
\* dutBooted; and no run calls checkDutBooted again once it has read true.
C27_BootedProbeOnlyLogged ==
  /\ Observable(twin[1]) = Observable(twin[2])
  /\ \A i \in DOMAIN twin : ~twin[i].askedAgain

C27_Witness ==
  /\ twin[1].pc = "returned" /\ twin[2].pc = "returned"
  /\ twin[1].dutBooted /\ ~twin[2].dutBooted


\* C28: JetsonTX2 controls DUT power only through its GPIO path: none of its
\* operations issues the driver's powerOnDUT() or powerOffDUT(); every write
\* that releases gpio26 ends a low pulse of 3 s (power-on, in powerOn, flash
\* and waitInternalFlash) or of 10 s (forced shutdown, the only pulse of
\* powerOff); and every forced shutdown goes on with a 1 s delay, a power
\* read and the write that drives DUT_PW_EN low, which is the last command
\* of a powerOffDUT() that completes.
C28_TX2PowerOnlyThroughGpio ==
  variant = "JetsonTX2" =>
    LET all == log \o todo
    IN /\ \A i \in DOMAIN all : all[i].c \notin {"powerOnDUT", "powerOffDUT"}
       /\ \A i \in DOMAIN log :
            (log[i].c = "gpio26" /\ log[i].a = HIGH) =>
              /\ i >= 3
              /\ log[i - 2] = Gpio26(LOW)
              /\ log[i - 1] \in {Delay(3000), Delay(10000)}
              /\ op = "powerOn" => log[i - 1] = Delay(3000)
              /\ op = "powerOff" => log[i - 1] = Delay(10000)
              /\ (log[i - 1] = Delay(10000) /\ outcome \in {"running", "ok"}) =>
                   SubSeq(all, i + 1, i + 3) =
                     <<Delay(1000), ReadGpio13, DigitalWrite(DUT_PW_EN, LOW)>>
       /\ (Done("powerOff") /\ outcome = "ok" /\ Issued(log, {"gpio26"})) =>
            /\ Last(log, 1) = <<DigitalWrite(DUT_PW_EN, LOW)>>
            /\ hw.dutPower = "off"

C28_Witness ==
  /\ variant = "JetsonTX2" /\ Done("powerOff") /\ outcome = "ok"
  /\ Issued(log, {"gpio26"})
  /\ Last(log, 1) = <<DigitalWrite(DUT_PW_EN, LOW)>>


\* C29 (as claimed): Imx8mmVarDartNRT.checkDutPower reads the DUT as on
\* exactly when the current it measured lies in [0.03 A, 50 A), 0.03 A
\* included and 50 A excluded, and as off for every other current.
C29_OnExactlyInClosedOpenWindow ==
  (variant = "Imx8mmVarDartNRT" /\ pc \in {"awaitBoot", "awaitOff", "debounce"}
     /\ scriptPos # 0 /\ ~(pc = "awaitOff" /\ tries = POLL_TRIES)) =>
    (dutOn <=> (outCurrent >= 30 /\ outCurrent < 50000))


\* C30: when driver calls complete and timers fire, every IntelNuc.powerOn()
\* terminates; its completion wait is bounded by the 6-minute timer: a pass
\* of the poll loop begins only while the timer has not fired, so the loop
\* is over with the pass (one 5 s delay and one read) during which the timer
\* fires; powerOn() ends with the completion sequence, with the timeout
\* failure, or with the rejection of a driver call.
C30_NucPowerOnTerminates ==
  /\ (variant = "IntelNuc" /\ op = "powerOn" /\ pc # "done") ~> (pc = "done")
  /\ []((variant = "IntelNuc" /\ op = "powerOn") =>
          /\ pc = "nucPoll" => (timedOut = 0 /\ elapsed < NUC_TIMEOUT_MS)
          /\ timedOut = 1 => (pc = "done" /\ outcome = "FlashTimeoutError")
          /\ pc = "done" =>
               outcome \in {"ok", "FlashTimeoutError", "driverError"}
          /\ (pc = "done" /\ outcome = "ok") =>
               /\ timedOut = 0
               /\ Last(log, 3) = <<PowerOffDUT, SwitchSdToHost(1000), PowerOnDUT>>)

C30_Witness ==
  /\ variant = "IntelNuc" /\ Done("powerOn")
  /\ outcome = "FlashTimeoutError"
  /\ timedOut = 1 /\ elapsed = NUC_TIMEOUT_MS
  /\ current > NUC_THRESHOLD_MA


\* C31: in IntelNuc.powerOn the outcome after the polling loop is decided by
\* the timer flag alone: a pass of the loop during whose delay or read the
\* 6-minute timer fires ends powerOn with the timeout error whatever that
\* pass sampled, also a current of at most 0.1 A, and issues nothing more;
\* powerOn ends with the timeout error exactly when the flag is set.
C31_TimerFlagAloneDecides ==
  [][ (variant = "IntelNuc" /\ op = "powerOn") =>
        /\ (pc = "nucPoll" /\ todo = <<>> /\ elapsed' = NUC_TIMEOUT_MS
              /\ outcome' # "driverError") =>
             /\ timedOut' = 1
             /\ pc' = "done" /\ outcome' = "FlashTimeoutError"
             /\ todo' = <<>> /\ log' = log
        /\ (pc' = "done" /\ op' = "powerOn" /\ outcome' # "driverError") =>
             (outcome' = "FlashTimeoutError" <=> timedOut' = 1)
    ]_vars

C31_Witness ==
  /\ variant = "IntelNuc" /\ Done("powerOn")
  /\ outcome = "FlashTimeoutError" /\ timedOut = 1
  /\ current <= NUC_THRESHOLD_MA
  /\ ~Issued(log, {"switchSdToHost"})

\* C32: when IntelNuc.powerOn() ends with the timeout error it has issued
\* the boot commands and nothing after them: its last power command is
\* powerOnDUT and its last mux command switchSdToDUT, so the DUT is left
\* powered with the boot media muxed to it.
C32_TimeoutLeavesDutPoweredOnMedia ==
  (variant = "IntelNuc" /\ Done("powerOn") /\ outcome = "FlashTimeoutError") =>
    /\ todo = <<>>
    /\ log = <<PowerOffDUT, SetVout(powerVoltage), SwitchSdToDUT(5000),
               PowerOnDUT, Delay(5000)>>
    /\ LastOf(log, {"powerOnDUT", "powerOffDUT"}) = PowerOnDUT
    /\ LastOf(log, {"switchSdToDUT", "switchSdToHost"}) = SwitchSdToDUT(5000)
    /\ hw.dutPower = "on" /\ hw.mux = "dut"

C32_Witness ==
  /\ variant = "IntelNuc" /\ Done("powerOn")
  /\ outcome = "FlashTimeoutError"
  /\ hw.dutPower = "on" /\ hw.mux = "dut"
  /\ Len(log) = 5


\* C33: in the compute-module flash() a scanner 'error' is raised to the
\* caller only from the wait for the USB-boot attach or the wait for its
\* detach, and flash() then rejects on the spot: the scanner of the attempt
\* is not stopped and neither the final toggleUsb(off) nor the final
\* powerOffDUT() is issued; a scanner 'error' in the block-device wait is
\* not raised: the scanner is stopped and the attempt is counted as failed,
\* as after a timeout.
C33_ScannerErrorRaisedOnlyInFirstWaits ==
  [][ ComputeModuleFlash =>
        /\ (outcome' = "scannerError" /\ outcome = "running") =>
             /\ pc \in {"waitUsbboot", "waitDetach"} /\ todo = <<>>
             /\ pc' = "done" /\ todo' = <<>>
             /\ log' = log
             /\ Last(log, 1) = <<ScannerStart>>
             /\ Count(log, ScannerStop) = flashTries
             /\ ~Issued(log, {"flashToDisk"})
             /\ flashTries' = flashTries
        /\ (pc \in {"waitUsbboot", "waitDetach"} /\ todo = <<>>
              /\ lastEvent' = lastEvent /\ pc' # pc) =>
             (pc' = "done" /\ outcome' = "scannerError")
        /\ (flashTries' = flashTries + 1) =>
             /\ pc = "waitBlock" /\ todo = <<>>
             /\ outcome' = "running"
             /\ log' = Append(log, ScannerStop)
             /\ timeouts' \in {timeouts, timeouts + 1}
             /\ timeouts' = timeouts + 1 => blockElapsed = BLOCK_TIMEOUT_MS
    ]_vars

C33_Witness ==
  /\ variant = "RevPiConnect" /\ InFlash /\ pc = "done"
  /\ outcome = "scannerError"
  /\ flashTries = 1 /\ timeouts = 0
  /\ Last(log, 1) = <<ScannerStart>>


\* C34: the block-device wait of an attempt of the compute-module flash()
\* ends in exactly one way. By the attach of the 'Compute Module' block
\* device: the timer is cancelled, flashToDisk is scheduled and no failure is
\* counted. By the timer, after the 5 minutes: the wait is over, the attempt
\* counter goes up by exactly one and flashToDisk is not scheduled, so an
\* attach that comes later finds no block-device wait of that attempt and
\* changes nothing. (Or by an absorbed scanner error, counted like the
\* timer.) Outside the block-device wait no timer is pending.
C34_BlockWaitHasOneOutcome ==
  [][ ComputeModuleFlash =>
        /\ (pc = "waitBlock" /\ todo = <<>> /\ pc' # pc) =>
             \/ /\ lastEvent' = [ev |-> "attach",
                                 drive |-> [kind |-> "block", id |-> "Compute Module"]]
                /\ pc' = "ret" /\ Issued(todo', {"flashToDisk"})
                /\ flashTries' = flashTries /\ timeouts' = timeouts
                /\ blockElapsed' = 0
             \/ /\ flashTries' = flashTries + 1
                /\ timeouts' \in {timeouts, timeouts + 1}
                /\ ~Issued(todo', {"flashToDisk"})
                /\ dest' = "none" /\ blockElapsed' = 0
                /\ pc' \in {"waitUsbboot", "ret"}
        /\ (timeouts' = timeouts + 1) =>
             /\ pc = "waitBlock" /\ pc' # "waitBlock"
             /\ blockElapsed = BLOCK_TIMEOUT_MS
             /\ flashTries' = flashTries + 1
        /\ flashTries' \in {flashTries, flashTries + 1} \/ pc' = "done" \/ pc = "done"
        /\ pc' # "waitBlock" => blockElapsed' = 0
        /\ (pc # "waitBlock" /\ pc # "done" /\ lastEvent' # lastEvent
              /\ lastEvent'.drive = [kind |-> "block", id |-> "Compute Module"]) =>
             UNCHANGED <<pc, todo, log, outcome, flashTries, dest, timeouts,
                         attemptsStarted>>
        /\ Issued(todo' \o log', {"flashToDisk"}) /\ pc' # "done" =>
             attemptsStarted' = flashTries' + 1
    ]_vars

C34_Witness ==
  /\ variant = "Rpi243390" /\ InFlash
  /\ timeouts = 1 /\ flashTries = 1 /\ attemptsStarted = 2
  /\ pc = "waitUsbboot" /\ todo = <<>>
  /\ lastEvent = [ev |-> "attach",
                  drive |-> [kind |-> "block", id |-> "Compute Module"]]


\* C35: in the compute-module flash() a 'Compute Module' block-device attach
\* delivered before the block-device wait began (during the usbboot wait or
\* the detach wait) changes nothing and is not remembered: the block-device
\* wait begins with no device matched, flashToDisk is scheduled only by an
\* attach delivered during that wait, and an attempt with such an early
\* attach whose block-device wait sees no further attach ends as a failed
\* attempt, by the timer (or an absorbed scanner error).
C35_EarlyAttachNotRemembered ==
  [][ ComputeModuleFlash =>
        /\ (earlyAttach' /\ ~earlyAttach) =>
             /\ pc \in {"waitUsbboot", "waitDetach"}
             /\ UNCHANGED <<pc, todo, log, outcome, dest, flashTries,
                            computeModule, blockElapsed, attemptsStarted,
                            timeouts, hw>>
        /\ (pc = "waitDetach" /\ pc' = "waitBlock") =>
             (dest' = "none" /\ todo' = <<>> /\ blockElapsed' = 0)
        /\ (Issued(todo', {"flashToDisk"}) /\ ~Issued(todo, {"flashToDisk"})) =>
             /\ pc = "waitBlock"
             /\ lastEvent' = [ev |-> "attach",
                              drive |-> [kind |-> "block", id |-> "Compute Module"]]
        /\ (earlyAttach /\ pc = "waitBlock" /\ pc' # pc
              /\ lastEvent' = lastEvent) =>
             /\ flashTries' = flashTries + 1
             /\ ~Issued(todo', {"flashToDisk"})
             /\ dest' = "none"
             /\ outcome' = "running"
    ]_vars

C35_Witness ==
  /\ variant = "BalenaFin" /\ InFlash
  /\ earlyAttach /\ pc = "waitBlock"
  /\ blockElapsed = BLOCK_TIMEOUT_MS
  /\ dest = "none" /\ flashTries = 0


\* the scanners the flash() in progress has started and not stopped
ScannersRunning == Count(log, ScannerStart) - Count(log, ScannerStop)

\* C36: within a compute-module flash() each attempt starts one scanner of
\* its own, as the last step of its head, and that scanner is stopped when
\* the block-device wait has ended (match, timer or absorbed error): before
\* flashToDisk is scheduled and before the head of the next attempt runs. So
\* at most one scanner started by the flash() in progress is running at any
\* time, exactly one during the three waits, none while an attempt head, the
\* write or the cleanup runs, and none when flash() returns.
C36_OneScannerPerAttempt ==
  ComputeModuleFlash =>
    /\ ScannersRunning \in {0, 1}
    /\ Count(log, ScannerStart) <= attemptsStarted
    /\ (pc \in {"waitUsbboot", "waitDetach", "waitBlock"} /\ todo = <<>>) =>
         /\ ScannersRunning = 1
         /\ Count(log, ScannerStart) = attemptsStarted
         /\ Last(log, 1) = <<ScannerStart>>
    /\ todo # <<>> =>
         ScannersRunning =
           (IF log # <<>> /\ Last(log, 1) = <<ScannerStart>> THEN 1 ELSE 0)
    /\ (todo # <<>> /\ todo[1] \in {FlashToDisk, ToggleUsb(0, USB_PORT)}) =>
         ScannersRunning = 0
    /\ Issued(log \o todo, {"flashToDisk"}) =>
         (ScannersRunning = 0 /\ Count(log, ScannerStop) = flashTries + 1)
    /\ (pc = "done" /\ outcome = "ok") => ScannersRunning = 0
    /\ (pc = "done" /\ ScannersRunning = 1) => outcome = "scannerError"

C36_Witness ==
  /\ variant = "BalenaFinV09" /\ InFlash
  /\ pc = "waitDetach" /\ todo = <<>>
  /\ Count(log, ScannerStart) = 3 /\ Count(log, ScannerStop) = 2


\* the driver operations that set the output voltage or switch DUT power
DriverPowerOps == {"setVout", "powerOnDUT", "powerOffDUT"}

\* the positions of seq that hold the command c
PositionsOf(seq, c) == {i \in DOMAIN seq : seq[i] = c}

\* C37: flash() of the BalenaFin (V10+) issues neither setVout nor powerOnDUT:
\* its powerOnFlash only toggles USB power, so the only driver power command
\* it issues is powerOffDUT, and the DUT is powered after a powerOffDUT of the
\* call only if that one command was rejected.
\* flash() of BalenaFinV09, RevPiCore3, RevPiConnect and Rpi243390 issues, in
\* every attempt that gets as far as starting its scanner,
\* setVout(powerVoltage) and then powerOnDUT directly before the scanner is
\* started, after the toggleUsb(on) of that attempt.
C37_OnlyV09FamilyPowersDutInFlash ==
  ComputeModuleFlash =>
    IF variant = "BalenaFin"
    THEN /\ ~Issued(log \o todo, {"setVout", "powerOnDUT"})
         /\ \A i \in DOMAIN log :
              (log[i].c \in DriverPowerOps) => log[i] = PowerOffDUT
         /\ (hw.dutPower = "on" /\ Issued(log, {"powerOffDUT"})) =>
              (Count(log, PowerOffDUT) = 1 /\ outcome = "driverError")
    ELSE \A i \in PositionsOf(log, ScannerStart) :
           /\ i > 5
           /\ log[i - 1] = PowerOnDUT
           /\ log[i - 2] = SetVout(powerVoltage)
           /\ LET usbOn == IF variant = "Rpi243390" THEN i - 4 ELSE i - 3
              IN  /\ log[usbOn] = ToggleUsb(1, USB_PORT)
                  /\ log[usbOn - 2] = ToggleUsb(0, USB_PORT)
           /\ Cardinality({j \in PositionsOf(log, PowerOnDUT) : j < i}) =
                Cardinality({j \in PositionsOf(log, ScannerStart) : j <= i})

C37_Witness ==
  /\ variant = "BalenaFin" /\ InFlash
  /\ pc = "done" /\ outcome = "ok"
  /\ attemptsStarted = 2
  /\ Issued(log, {"flashToDisk"})
  /\ Count(log, PowerOffDUT) = 3


\* C38: while JetsonTX2.waitInternalFlash waits for the TX2 to be off, the
\* pass of the retry loop that is pending is one of at most 9 (retries counts
\* down from 9 to 1, one re-check per pass); the operation never rejects with
\* 'Failed to power off the TX2 before flashing'; and however a re-check
\* that returned a reading leaves the loop, also with the TX2 still reading
\* on at the ninth re-check, the next calls are switchSdToDUT(1000) and the
\* power-on of the flasher boot. (A re-check whose probe command fails
\* rejects the operation with the probe's error.)
C38_AtMostNineRechecksThenBootAnyway ==
  /\ [](variant = "JetsonTX2" =>
          /\ outcome # "PowerOffFailedError"
          /\ pc = "txRetryLoop" => retries \in 1..(TX2_RETRIES - 1))
  /\ [][(variant = "JetsonTX2" /\ pc = "txRetryLoop") =>
          /\ pc' = "txRetryLoop" => retries' = retries - 1
          /\ (pc' # "txRetryLoop" /\ outcome' # ProbeError(variant)) =>
               /\ pc' = "awaitBoot" /\ outcome' = "running"
               /\ retries' \in {0, retries}
               /\ todo' = JetsonTX2_waitInternalFlash_boot(powerVoltage,
                                                           hw.gpiosEnabled)
               /\ todo'[1] = SwitchSdToDUT(1000)
          /\ retries = 1 => pc' # "txRetryLoop"]_vars

\* the TX2 still read on at the ninth re-check, and the media has been muxed
\* to the DUT for the flasher boot
C38_Witness ==
  /\ variant = "JetsonTX2" /\ op = "waitInternalFlash"
  /\ pc = "awaitBoot" /\ retries = 0 /\ todo # <<>>
  /\ outcome = "running"
  /\ log # <<>> /\ Last(log, 1) = <<SwitchSdToDUT(1000)>>
  /\ hw.mux = "dut"


\* a lower bound of the checkDutPower readings the waitInternalFlash in
\* progress has taken: one if its boot loop has read, one if its completion
\* loop has polled, and the samples of the window begun last
ReadingsAtLeast ==
  (IF bootLoopRead THEN 1 ELSE 0) + (IF lastOuter # "none" THEN 1 ELSE 0) +
  tries

\* C39: when FlasherDeviceInteractor.waitInternalFlash has left its
\* completion loop towards a normal return, the last 21 readings it took
\* read off: the outer poll that opened the last debounce window and the 20
\* samples of that window; with the reading of the boot loop it has taken at
\* least 22 readings. A debounce window is never left before its 20th
\* sample, also when a sample read on: while the operation runs, tries is
\* below 20 only inside a window.
C39_ReturnsAfterTwentyOneOffReadings ==
  (variant \in PlainFlasherVariants /\ op \in {"waitInternalFlash", "flash",
                                               "flashFromFile"}) =>
    /\ (stableOff /\ pc \in {"wifEnd", "ret", "done"}) =>
         /\ lastOuter = "off"
         /\ tries = POLL_TRIES /\ offCount = POLL_TRIES /\ winOn = 0
         /\ bootLoopRead
         /\ ReadingsAtLeast >= POLL_TRIES + 2
    /\ pc = "debounce" => (lastOuter = "off" /\ bootLoopRead)
    /\ (outcome \in {"running", "ok"} /\ pc # "debounce") =>
         /\ tries \in {0, POLL_TRIES}
         /\ offCount + winOn = tries
    /\ pc = "debounce" => (tries < POLL_TRIES /\ offCount + winOn = tries)

C39_Witness ==
  /\ variant = "BeagleBone" /\ op = "waitInternalFlash"
  /\ pc = "done" /\ outcome = "ok"
  /\ stableOff /\ lastOuter = "off" /\ bootLoopRead
  /\ tries = POLL_TRIES /\ winOn = 0
  /\ scriptPos = 4 + 2 * POLL_TRIES


\* C40: in every state of every sequence of powerOn/flash/powerOff/
\* waitInternalFlash calls on an interactor, each setVout call the operation
\* in progress has issued or has still to issue passes the interactor's
\* powerVoltage, the value its constructor set; so the voltage the rig was
\* last told is that value, or none was told yet.
C40_SetVoutPassesOwnPowerVoltage ==
  /\ \A i \in DOMAIN log :
       log[i].c = "setVout" => log[i] = SetVout(powerVoltage)
  /\ \A i \in DOMAIN todo :
       todo[i].c = "setVout" => todo[i] = SetVout(powerVoltage)
  /\ powerVoltage = ConstructorVoltage(variant)
  /\ hw.vout \in {0, powerVoltage}

\* JetsonTX2.waitInternalFlash has set the voltage through powerOnRelay on
\* its way to the flasher boot, and the rig holds that voltage
C40_Witness ==
  /\ variant = "JetsonTX2" /\ op = "waitInternalFlash"
  /\ pc = "awaitBoot" /\ outcome = "running"
  /\ hw.vout = powerVoltage /\ hw.dutPower = "on"
  /\ Count(log, SetVout(powerVoltage)) = 1
  /\ log[1] # SetVout(powerVoltage)
  /\ bootLoopRead

=============================================================================
